---- MODULE Spec2Model ----
(***************************************************************************)
(* Verification model of tf2avm: the AVM knowledge cache (AVMService) and   *)
(* the sequential orchestrator (TerraformAVMOrchestrator).                  *)
(*                                                                         *)
(* Strings are sequences of tokens; a token stands for a run of characters *)
(* without '.', '-' or '_', or for one of these separators.                *)
(***************************************************************************)
EXTENDS Integers, Sequences, FiniteSets, TLC

VARIABLES
    files,          \* localCache/: file name -> [exists, mtime, content]
    now,            \* wall clock (seconds)
    ticks,          \* number of clock advances so far (bounds the run)
    cache_enabled,  \* AVMService.cache_enabled
    last,           \* what the last AVMService call did
    arg,            \* the arguments of a function under test
    res,            \* its results (<<>> before it is applied)
    wr,             \* process -> where its _save_cache is: [pc, data, off]
    seen,           \* what the last concurrent _load_cache read
    repo,           \* the repository given to convert_repository
    run             \* the call of convert_repository: position and locals

cacheVars == <<files, now, ticks, cache_enabled, last>>
fnVars == <<arg, res>>
concVars == <<wr, seen>>
orchVars == <<repo, run>>
vars == <<files, now, ticks, cache_enabled, last, arg, res, wr, seen, repo, run>>

(***************************** bounds ***************************************)
MaxTicks == 2
MaxKeyLen == 3
MaxResponseLen == 3

(************************* program constants ********************************)
cache_ttl == 3000000

(***************************** strings **************************************)
Replace(s, old, new) == [i \in 1..Len(s) |-> IF s[i] = old THEN new ELSE s[i]]

\* mutant: the version is left out of the file name
_get_module_cache_filename_no_version(module_name, module_version) ==
    module_name \o <<".json">>

_get_module_cache_filename(module_name, module_version) ==
    module_name \o <<"_">> \o Replace(module_version, ".", "-") \o <<".json">>

knowledge_cache_filename == <<"avm", "_", "knowledge", ".json">>

(************************** modules and payloads ****************************)
Module(n, v) == [name |-> n, version |-> v]

P1 == Module(<<"m">>, <<"1", ".", "0">>)
P2 == Module(<<"n">>, <<"1", ".", "0">>)
Modules == {P1, P2}

ModuleKey(m) == _get_module_cache_filename(m.name, m.version)
ModuleKeys == {ModuleKey(m) : m \in Modules}
Keys == ModuleKeys \cup {knowledge_cache_filename}

\* AVMResourceDetailsAgentResult for module m
Details(m) == [kind |-> "details", module |-> m]
DetailsPayloads == {Details(m) : m \in Modules}

\* AVMKnowledgeAgentResult: each entry of modules is [module, detail] (detail:
\* the description/resources copied from the module's details, or NoDetail
\* before the enrichment)
NoDetail == [kind |-> "none"]
Knowledge(mods) == [kind |-> "index", modules |-> mods]
IndexLists == {<<>>, <<P1>>, <<P2, P1>>}
RawEntries(ms) == [i \in 1..Len(ms) |-> [module |-> ms[i], detail |-> NoDetail]]

\* what a file that no fetch wrote may hold
Corrupt(k) == [kind |-> k]
CorruptKinds == {"badjson", "badutf8", "falsy", "badschema"}

NoPayload == [kind |-> "nothing"]

(****************************** files ***************************************)
\* json.dump writes the text through a buffer: a payload reaches the file in
\* one or more chunks, <<p, i>> is the i-th chunk of the text of p
ChunkCount(p) == IF p.kind = "index" /\ Len(p.modules) > 0 THEN 2 ELSE 1
Dump(p) == [i \in 1..ChunkCount(p) |-> <<p, i>>]

Absent == [exists |-> FALSE, mtime |-> 0, content |-> <<>>]
File(t, c) == [exists |-> TRUE, mtime |-> t, content |-> c]

\* the text of the file is the complete text of one payload
Whole(c) == c # <<>> /\ c = Dump(c[1][1])

(*************************** AVMService *************************************)
\* mutant: the comparison with the expiry time is inverted
_is_cache_valid_inverted(f, t) == f.exists /\ t > f.mtime + cache_ttl

\* _is_cache_valid: the file exists and now < mtime + cache_ttl
_is_cache_valid(f, t) == f.exists /\ t < f.mtime + cache_ttl

\* _load_cache: open(..., encoding='utf-8') and json.load. JSONDecodeError and
\* IOError are caught (None is returned); the UnicodeDecodeError of a file that
\* is not UTF-8 is neither and leaves the function.
\* Result: [raised, data], data = NoPayload for None.
_load_cache(f) ==
    LET c == f.content IN
    IF ~Whole(c) THEN [raised |-> FALSE, data |-> NoPayload]
    ELSE LET p == c[1][1] IN
         CASE p.kind = "badutf8" -> [raised |-> TRUE, data |-> NoPayload]
           [] p.kind = "badjson" -> [raised |-> FALSE, data |-> NoPayload]
           [] OTHER -> [raised |-> FALSE, data |-> p]

\* `if cached_data:` - None and an empty JSON value are falsy
Truthy(d) == d.kind \notin {"nothing", "falsy"}

\* <Model>.model_validate(cached_data) for Model = "details" / "index"
model_validate(cls, d) == d.kind = cls

\* mutant: a failed write removes the file
_save_cache_unlink_on_error(fs, key, data, t, how, n) ==
    CASE how = "ok" -> [fs EXCEPT ![key] = File(t, Dump(data))]
      [] how = "write_fails" -> [fs EXCEPT ![key] = Absent]
      [] OTHER -> fs

\* _save_cache(cache_file, data) at time t; how: "ok", "open_fails" (IOError
\* before the file is opened: nothing changes) or "write_fails" (IOError after
\* open(..., 'w') truncated the file: n chunks of the text are in it).
\* The IOError is caught and the caller goes on.
_save_cache(fs, key, data, t, how, n) ==
    CASE how = "ok" -> [fs EXCEPT ![key] = File(t, Dump(data))]
      [] how = "write_fails" -> [fs EXCEPT ![key] = File(t, SubSeq(Dump(data), 1, n))]
      [] OTHER -> fs

SaveOutcomes(data) ==
    {<<"ok", 0>>, <<"open_fails", 0>>}
        \cup {<<"write_fails", n>> : n \in 0..(ChunkCount(data) - 1)}

\* mutant: the entry is read whatever use_cache says
TryCache_ignores_use_cache(fs, key, cls, t, enabled, use_cache) ==
    LET loaded(l) ==
            IF l.raised THEN [how |-> "raised", ret |-> NoPayload, read |-> TRUE]
            ELSE IF Truthy(l.data) /\ model_validate(cls, l.data)
                 THEN [how |-> "hit", ret |-> l.data, read |-> TRUE]
                 ELSE [how |-> "miss", ret |-> NoPayload, read |-> TRUE]
    IN
    IF enabled /\ _is_cache_valid(fs[key], t)
    THEN loaded(_load_cache(fs[key]))
    ELSE [how |-> "miss", ret |-> NoPayload, read |-> FALSE]

\* The try-the-cache-first block shared by both fetch operations
\* (avm_service.py 150-159 and 194-203): "hit" with the validated payload,
\* "miss", or "raised" when _load_cache let an exception through.
TryCache(fs, key, cls, t, enabled, use_cache) ==
    LET loaded(l) ==
            IF l.raised THEN [how |-> "raised", ret |-> NoPayload, read |-> TRUE]
            ELSE IF Truthy(l.data) /\ model_validate(cls, l.data)
                 THEN [how |-> "hit", ret |-> l.data, read |-> TRUE]
                 ELSE [how |-> "miss", ret |-> NoPayload, read |-> TRUE]
    IN
    IF use_cache /\ enabled /\ _is_cache_valid(fs[key], t)
    THEN loaded(_load_cache(fs[key]))
    ELSE [how |-> "miss", ret |-> NoPayload, read |-> FALSE]

\* AVMResourceDetailsAgent.fetch_avm_resource_details: its first statement calls
\* TerraformPlugin.get_avm_module_details, a method TerraformPlugin does not
\* define (it defines get_avm_module_details_json and
\* get_avm_module_details_model), so every call ends in AttributeError.
AVMResourceDetailsAgent_fetch(m) == [raised |-> TRUE, ret |-> NoPayload]

\* mutant: the answer of the agent is saved before it is known to be one
fetch_avm_resource_details_save_first(fs, m, t, enabled, use_cache, sv) ==
    LET key == _get_module_cache_filename(m.name, m.version)
        answered(c, r) ==
            IF c.how = "hit"
            THEN [files |-> fs, how |-> "hit", ret |-> c.ret, calls |-> 0,
                  failed |-> FALSE, read |-> c.read, saved |-> FALSE]
            ELSE IF c.how = "raised"
            THEN [files |-> fs, how |-> "raised", ret |-> NoPayload, calls |-> 0,
                  failed |-> FALSE, read |-> c.read, saved |-> FALSE]
            ELSE [files |-> IF enabled
                            THEN _save_cache(fs, key, r.ret, t, sv[1], sv[2]) ELSE fs,
                  how |-> IF r.raised THEN "raised" ELSE "fetched", ret |-> r.ret,
                  calls |-> 1, failed |-> r.raised, read |-> c.read,
                  saved |-> enabled]
    IN answered(TryCache(fs, key, "details", t, enabled, use_cache),
                AVMResourceDetailsAgent_fetch(m))

\* fetch_avm_resource_details(module_name, module_version, use_cache).
\* sv = <<how, n>> is what _save_cache meets if it is reached.
\* Result: the files, the outcome ("hit", "fetched", "raised"), the payload
\* returned, the number of calls of the details agent and whether such a call
\* raised.
fetch_avm_resource_details(fs, m, t, enabled, use_cache, sv) ==
    LET key == _get_module_cache_filename(m.name, m.version)
        \* the statements after the agent answered with r
        answered(c, r) ==
            IF r.raised
            THEN [files |-> fs, how |-> "raised", ret |-> NoPayload, calls |-> 1,
                  failed |-> TRUE, read |-> c.read, saved |-> FALSE]
            ELSE [files |-> IF enabled
                            THEN _save_cache(fs, key, r.ret, t, sv[1], sv[2]) ELSE fs,
                  how |-> "fetched", ret |-> r.ret, calls |-> 1, failed |-> FALSE,
                  read |-> c.read, saved |-> enabled]
        \* the statements after the try-the-cache block, c its outcome
        tried(c) ==
            IF c.how = "hit"
            THEN [files |-> fs, how |-> "hit", ret |-> c.ret, calls |-> 0,
                  failed |-> FALSE, read |-> c.read, saved |-> FALSE]
            ELSE IF c.how = "raised"
            THEN [files |-> fs, how |-> "raised", ret |-> NoPayload, calls |-> 0,
                  failed |-> FALSE, read |-> c.read, saved |-> FALSE]
            ELSE answered(c, AVMResourceDetailsAgent_fetch(m))
    IN tried(TryCache(fs, key, "details", t, enabled, use_cache))

\* AVMKnowledgeAgent.fetch_avm_knowledge: the index page is fetched and parsed by
\* the inference service; the call raises or returns an AVMKnowledgeAgentResult
KnowledgeAnswers ==
    {[raised |-> TRUE, ret |-> NoPayload]}
        \cup {[raised |-> FALSE, ret |-> Knowledge(RawEntries(ms))] : ms \in IndexLists}

\* the loop of fetch_avm_knowledge (avm_service.py 167-170) from module i on:
\* the details of each module are fetched with use_cache=True and copied into
\* the module's entry; the first exception ends the loop
RECURSIVE Enrich(_, _, _, _, _, _)
Enrich(fs, es, i, t, enabled, dsv) ==
    LET \* the detail fetch of module i gave d
        fetched(d) ==
            LET asked == IF d.calls = 1 THEN <<es[i].module>> ELSE <<>> IN
            IF d.how = "raised"
            THEN [files |-> d.files, raised |-> TRUE, entries |-> es,
                  calls |-> d.calls, failed |-> d.failed, called |-> asked]
            ELSE [Enrich(d.files, [es EXCEPT ![i].detail = d.ret], i + 1, t,
                         enabled, dsv)
                     EXCEPT !.calls = @ + d.calls, !.called = asked \o @]
    IN
    IF i > Len(es)
    THEN [files |-> fs, raised |-> FALSE, entries |-> es, calls |-> 0,
          failed |-> FALSE, called |-> <<>>]
    ELSE fetched(fetch_avm_resource_details(fs, es[i].module, t, enabled, TRUE, dsv))

\* mutant: the index is saved as the agent returned it, before the enrichment
fetch_avm_knowledge_index_first(fs, t, enabled, use_cache, ag, sv, dsv) ==
    LET key == knowledge_cache_filename
        enriched(c, e) ==
            IF e.raised
            THEN [files |-> e.files, how |-> "raised", ret |-> NoPayload,
                  calls |-> 1, dcalls |-> e.calls, dcalled |-> e.called,
                  failed |-> e.failed, read |-> c.read, saved |-> FALSE]
            ELSE [files |-> e.files, how |-> "fetched", ret |-> Knowledge(e.entries),
                  calls |-> 1, dcalls |-> e.calls, dcalled |-> e.called,
                  failed |-> FALSE, read |-> c.read, saved |-> enabled]
        tried(c) ==
            IF c.how = "hit"
            THEN [files |-> fs, how |-> "hit", ret |-> c.ret, calls |-> 0,
                  dcalls |-> 0, dcalled |-> <<>>, failed |-> FALSE,
                  read |-> c.read, saved |-> FALSE]
            ELSE IF c.how = "raised"
            THEN [files |-> fs, how |-> "raised", ret |-> NoPayload, calls |-> 0,
                  dcalls |-> 0, dcalled |-> <<>>, failed |-> FALSE,
                  read |-> c.read, saved |-> FALSE]
            ELSE IF ag.raised
            THEN [files |-> fs, how |-> "raised", ret |-> NoPayload, calls |-> 1,
                  dcalls |-> 0, dcalled |-> <<>>, failed |-> TRUE,
                  read |-> c.read, saved |-> FALSE]
            ELSE enriched(c, Enrich(IF enabled
                                    THEN _save_cache(fs, key, ag.ret, t, sv[1], sv[2])
                                    ELSE fs,
                                    ag.ret.modules, 1, t, enabled, dsv))
    IN tried(TryCache(fs, key, "index", t, enabled, use_cache))

\* fetch_avm_knowledge(use_cache); ag is the answer of the knowledge agent, sv
\* and dsv what _save_cache meets for the index and for a module's details.
\* calls counts the calls of the knowledge agent, dcalls of the details agent;
\* failed: a call of one of them raised.
fetch_avm_knowledge(fs, t, enabled, use_cache, ag, sv, dsv) ==
    LET key == knowledge_cache_filename
        \* the statements after the enrichment loop, e its outcome
        enriched(c, e) ==
            IF e.raised
            THEN [files |-> e.files, how |-> "raised", ret |-> NoPayload,
                  calls |-> 1, dcalls |-> e.calls, dcalled |-> e.called,
                  failed |-> e.failed, read |-> c.read, saved |-> FALSE]
            ELSE [files |-> IF enabled
                            THEN _save_cache(e.files, key, Knowledge(e.entries), t,
                                             sv[1], sv[2])
                            ELSE e.files,
                  how |-> "fetched", ret |-> Knowledge(e.entries), calls |-> 1,
                  dcalls |-> e.calls, dcalled |-> e.called, failed |-> FALSE,
                  read |-> c.read, saved |-> enabled]
        \* the statements after the try-the-cache block, c its outcome
        tried(c) ==
            IF c.how = "hit"
            THEN [files |-> fs, how |-> "hit", ret |-> c.ret, calls |-> 0,
                  dcalls |-> 0, dcalled |-> <<>>, failed |-> FALSE,
                  read |-> c.read, saved |-> FALSE]
            ELSE IF c.how = "raised"
            THEN [files |-> fs, how |-> "raised", ret |-> NoPayload, calls |-> 0,
                  dcalls |-> 0, dcalled |-> <<>>, failed |-> FALSE,
                  read |-> c.read, saved |-> FALSE]
            ELSE IF ag.raised
            THEN [files |-> fs, how |-> "raised", ret |-> NoPayload, calls |-> 1,
                  dcalls |-> 0, dcalled |-> <<>>, failed |-> TRUE,
                  read |-> c.read, saved |-> FALSE]
            ELSE enriched(c, Enrich(fs, ag.ret.modules, 1, t, enabled, dsv))
    IN tried(TryCache(fs, key, "index", t, enabled, use_cache))

\* clear_cache: every *.json of the cache directory is unlinked; an unlink that
\* raises ends the loop (False is returned) with the files in `gone` deleted
clear_cache(fs, gone) == [k \in DOMAIN fs |-> IF k \in gone THEN Absent ELSE fs[k]]

\* clear_module_cache: the module's file is unlinked if it exists (an unlink
\* that raises leaves it and False is returned)
clear_module_cache(fs, m, unlink_ok) ==
    LET key == _get_module_cache_filename(m.name, m.version) IN
    IF fs[key].exists /\ unlink_ok THEN [fs EXCEPT ![key] = Absent] ELSE fs

Existing(fs) == {k \in DOMAIN fs : fs[k].exists}

(************************ the cache as a state machine ***********************)
Op(op, key, use_cache, r, calls, dcalls) ==
    [op |-> op, key |-> key, use_cache |-> use_cache, how |-> r.how, ret |-> r.ret,
     calls |-> calls, dcalls |-> dcalls, failed |-> r.failed, read |-> r.read,
     saved |-> r.saved]

Done(how) ==
    [how |-> how, ret |-> NoPayload, failed |-> FALSE, read |-> FALSE, saved |-> FALSE]

NoOp == Op("none", <<>>, FALSE, Done("none"), 0, 0)

\* what the cache directory may hold when the service is constructed: files of
\* earlier runs (payloads written at time 0) and damaged files
InitialFiles(k) ==
    {Absent}
        \cup {File(0, Dump(Details(m))) : m \in {x \in Modules : ModuleKey(x) = k}}
        \cup IF k = knowledge_cache_filename
             THEN {File(0, Dump(Corrupt(c))) : c \in CorruptKinds}
                      \cup {File(0, Dump(Knowledge(<<>>)))}
             ELSE {File(0, Dump(Corrupt(c))) : c \in {"badjson", "badutf8"}}

\* the processes (runs of main.py) that share the cache directory
Procs == {1, 2}
IdleWriter == [pc |-> "idle", data |-> NoPayload, off |-> 0]
NotRead == [did |-> FALSE, file |-> Absent, data |-> NoPayload]
ConcIdle == wr = [p \in Procs |-> IdleWriter] /\ seen = NotRead

\* convert_repository before it is called
NotStarted ==
    [pc |-> "start", status |-> "none", trace |-> <<>>, reviews |-> 0, allok |-> TRUE,
     inventory |-> {}, knowledge |-> NoPayload, mappings |-> <<>>,
     modules_details |-> <<>>, resources_planings |-> <<>>, i |-> 1,
     output_dir |-> FALSE, artifacts |-> <<>>, error |-> "none",
     planner_calls |-> <<>>, detail_calls |-> <<>>]
NoRepo == [exists |-> FALSE, tf_files |-> {}]
OrchIdle == repo = NoRepo /\ run = NotStarted

InitCache ==
    /\ files \in [Keys -> UNION {InitialFiles(k) : k \in Keys}]
    /\ \A k \in Keys : files[k] \in InitialFiles(k)
    /\ now = 0
    /\ ticks = 0
    /\ cache_enabled \in BOOLEAN
    /\ last = NoOp
    /\ arg = <<>>
    /\ res = <<>>
    /\ ConcIdle
    /\ OrchIdle

\* time passes between two calls: by a second, or by just less than the TTL
Tick ==
    /\ ticks < MaxTicks
    /\ \E d \in {1, cache_ttl - 1} : now' = now + d
    /\ ticks' = ticks + 1
    /\ UNCHANGED <<files, cache_enabled, last>>

\* The collaborators answer only when they are asked, and _save_cache meets an
\* outcome only when it is reached
Asked(key, cls, use_cache) ==
    TryCache(files, key, cls, now, cache_enabled, use_cache).how = "miss"

Saves(asked, answer) ==
    IF asked /\ ~answer.raised /\ cache_enabled THEN SaveOutcomes(answer.ret)
    ELSE {<<"ok", 0>>}

FetchDetails ==
    \E m \in Modules, use_cache \in BOOLEAN :
      \E sv \in Saves(Asked(ModuleKey(m), "details", use_cache),
                      AVMResourceDetailsAgent_fetch(m)) :
        LET returned(r) ==
                /\ files' = r.files
                /\ last' = Op("details", ModuleKey(m), use_cache, r, r.calls, 0)
        IN
        /\ returned(fetch_avm_resource_details(files, m, now, cache_enabled,
                                               use_cache, sv))
        /\ UNCHANGED <<now, ticks, cache_enabled>>

FetchKnowledge ==
    \E use_cache \in BOOLEAN :
      \E ag \in IF Asked(knowledge_cache_filename, "index", use_cache)
                 THEN KnowledgeAnswers ELSE {[raised |-> TRUE, ret |-> NoPayload]} :
        \E sv \in Saves(Asked(knowledge_cache_filename, "index", use_cache), ag) :
          LET returned(r) ==
                  /\ files' = r.files
                  /\ last' = Op("knowledge", knowledge_cache_filename, use_cache, r,
                                r.calls, r.dcalls)
          IN
          /\ returned(fetch_avm_knowledge(files, now, cache_enabled, use_cache, ag,
                                          sv, <<"ok", 0>>))
          /\ UNCHANGED <<now, ticks, cache_enabled>>

ClearCache ==
    \E gone \in SUBSET Existing(files) :
        /\ files' = clear_cache(files, gone)
        /\ last' = Op("clear_cache", <<>>, FALSE,
                      Done(IF gone = Existing(files) THEN "ok" ELSE "failed"), 0, 0)
        /\ UNCHANGED <<now, ticks, cache_enabled>>

ClearModuleCache ==
    \E m \in Modules, unlink_ok \in BOOLEAN :
        /\ files' = clear_module_cache(files, m, unlink_ok)
        /\ last' = Op("clear_module_cache", ModuleKey(m), FALSE,
                      Done(IF unlink_ok \/ ~files[ModuleKey(m)].exists
                           THEN "ok" ELSE "failed"), 0, 0)
        /\ UNCHANGED <<now, ticks, cache_enabled>>

NextCache ==
    /\ Tick \/ FetchDetails \/ FetchKnowledge \/ ClearCache \/ ClearModuleCache
    /\ UNCHANGED <<fnVars, concVars, orchVars>>

SpecCache == InitCache /\ [][NextCache]_vars

(************************* claims about the cache ***************************)
FetchOps == {"details", "knowledge"}
ClassOf(op) == IF op = "knowledge" THEN "index" ELSE "details"

\* the step is a call of fetch_avm_resource_details or fetch_avm_knowledge
FetchStep == last'.op \in FetchOps /\ now' = now

\* the entry of key k holds the complete text of a payload of class cls
Stored(k, cls) == Whole(files[k].content) /\ files[k].content[1][1].kind = cls
StoredPayload(k) == files[k].content[1][1]

\* the entry of key k exists and its TTL has not elapsed
InTTL(k) == files[k].exists /\ now - files[k].mtime < cache_ttl

\* C1: a fetch that reads (use_cache, cache enabled) an entry holding a stored
\* payload before its TTL has elapsed returns exactly that payload and calls no
\* agent.
C1_CacheHit ==
    [][(/\ FetchStep
        /\ last'.use_cache /\ cache_enabled
        /\ InTTL(last'.key)
        /\ Stored(last'.key, ClassOf(last'.op)))
       => (/\ last'.how = "hit"
           /\ last'.ret = StoredPayload(last'.key)
           /\ last'.calls = 0 /\ last'.dcalls = 0)]_vars

\* C1 witness: the index stored by a fetch of this run (the index of an earlier
\* run lists no module) is returned by a later hit, just before it expires
C1_Witness ==
    /\ last.op = "knowledge" /\ last.how = "hit"
    /\ last.ret.modules # <<>>
    /\ now = files[knowledge_cache_filename].mtime + cache_ttl - 1

\* C2 (as claimed): a read of an entry older than the TTL calls the collaborator
\* of the key exactly once and, unless that collaborator is unavailable,
\* overwrites the entry with the fetched payload.
C2_ExpiredIsRefetched ==
    [][(/\ FetchStep
        /\ last'.use_cache /\ cache_enabled
        /\ files[last'.key].exists
        /\ ~InTTL(last'.key)
        /\ ~(last'.op = "knowledge" /\ last'.failed /\ last'.dcalls = 0))
       => (/\ last'.calls = 1
           /\ last'.how = "fetched"
           /\ files'[last'.key] = File(now, Dump(last'.ret)))]_vars

\* C3: when a collaborator call fails, the fetch raises and the entry of the
\* key is exactly what it was (nothing is written, nothing is removed).
C3_FailureNotCached ==
    [][(FetchStep /\ last'.failed)
       => (last'.how = "raised" /\ files'[last'.key] = files[last'.key])]_vars

\* C3 witness: the agent failed on the miss caused by an expired entry
C3_Witness ==
    /\ last.op \in FetchOps /\ last.failed /\ last.use_cache /\ cache_enabled
    /\ files[last.key].exists
    /\ ~InTTL(last.key)

\* C4 (as claimed): a corrupt entry within its TTL is treated as a miss: the
\* fetch gets as far as calling the collaborator.
C4_CorruptIsMiss ==
    [][(/\ FetchStep
        /\ last'.use_cache /\ cache_enabled
        /\ InTTL(last'.key)
        /\ ~Stored(last'.key, ClassOf(last'.op)))
       => last'.calls = 1]_vars

\* C6: the set of existing entries shrinks only in a step of clear_cache or of
\* clear_module_cache, and the latter removes the module's own entry only.
C6_OnlyClearDeletes ==
    [][~(Existing(files) \subseteq Existing(files'))
       => (/\ last'.op \in {"clear_cache", "clear_module_cache"}
           /\ last'.op = "clear_module_cache"
                => Existing(files) \ Existing(files') = {last'.key})]_vars

\* C6 witness: a fetch rewrote an entry (a failed write left it truncated) and
\* every entry is still there
C6_Witness ==
    /\ last.op = "knowledge" /\ last.how = "fetched"
    /\ files[knowledge_cache_filename].exists
    /\ ~Whole(files[knowledge_cache_filename].content)
    /\ Existing(files) = Keys

\* every module of the index carries the detail of that module
AllDetailed(index) ==
    \A i \in 1..Len(index.modules) :
        index.modules[i].detail = Details(index.modules[i].module)

\* C36: index/detail consistency: on a cache miss fetch_avm_knowledge writes
\* the index entry only after the detail of every module of the fetched index
\* has been obtained; if a detail fetch fails the error propagates and the
\* index entry is left as it was, while the detail entries obtained before
\* the failure stay cached.
C36_IndexAfterDetails ==
    [][(FetchStep /\ last'.op = "knowledge" /\ last'.calls = 1)
       => (/\ files'[knowledge_cache_filename] # files[knowledge_cache_filename]
                => (last'.how = "fetched" /\ AllDetailed(last'.ret))
           /\ last'.how = "fetched" => AllDetailed(last'.ret)
           /\ (last'.failed /\ last'.dcalls > 0)
                => (/\ last'.how = "raised"
                    /\ files'[knowledge_cache_filename]
                          = files[knowledge_cache_filename]
                    /\ \A k \in ModuleKeys :
                          files[k].exists => files'[k] = files[k]))]_vars

\* C36 witness: an index was stored by an earlier fetch, the agent then
\* listed two modules, the detail of the first was in the cache and the fetch
\* of the second failed
C36_Witness ==
    /\ last.op = "knowledge" /\ last.how = "raised"
    /\ last.failed /\ last.dcalls = 1
    /\ files[knowledge_cache_filename].exists
    /\ Stored(ModuleKey(P2), "details")
    /\ ~files[ModuleKey(P1)].exists

\* C37 (as claimed): cache flags: a stored entry is read only when use_cache
\* and cache_enabled are both true; after every successful collaborator fetch
\* the entry is written iff cache_enabled is true, regardless of use_cache;
\* with cache_enabled false no entry is ever read or written by a fetch.
C37_CacheFlags ==
    [][FetchStep
       => (/\ last'.read => (last'.use_cache /\ cache_enabled)
           /\ last'.how = "fetched" =>
                 IF cache_enabled
                 THEN files'[last'.key] = File(now, Dump(last'.ret))
                 ELSE files'[last'.key] = files[last'.key]
           /\ ~cache_enabled => (~last'.read /\ files' = files))]_vars

\* C37 (amended): the write is attempted iff cache_enabled is true; what the
\* entry holds afterwards is what _save_cache left: the fetched payload, or,
\* when the write failed, the old entry or a truncated one.
C37_CacheFlagsAttempted ==
    [][FetchStep
       => (/\ last'.read => (last'.use_cache /\ cache_enabled)
           /\ last'.how = "fetched" =>
                 /\ last'.saved <=> cache_enabled
                 /\ cache_enabled =>
                      \E sv \in SaveOutcomes(last'.ret) :
                          files'[last'.key] =
                              _save_cache(files, last'.key, last'.ret, now,
                                          sv[1], sv[2])[last'.key]
           /\ last'.how # "fetched" => ~last'.saved
           /\ ~cache_enabled => (~last'.read /\ ~last'.saved /\ files' = files))]_vars

\* C37 witness: a fetch with use_cache = false passed over a valid stored
\* index, asked the agent and refreshed the entry
C37_Witness ==
    /\ last.op = "knowledge" /\ last.how = "fetched"
    /\ ~last.use_cache /\ cache_enabled
    /\ ~last.read /\ last.saved
    /\ now > 0
    /\ files[knowledge_cache_filename] = File(now, Dump(last.ret))

(************** _save_cache and _load_cache of concurrent runs ***************)
\* the detailed entries fetch_avm_knowledge builds for the modules ms
Enriched(ms) == [i \in 1..Len(ms) |-> [module |-> ms[i], detail |-> Details(ms[i])]]

\* the results fetch_avm_knowledge hands to _save_cache
SavedResults == {Knowledge(Enriched(ms)) : ms \in IndexLists}

\* the bytes a write leaves unwritten below its offset read as NULs
Hole == <<NoPayload, 0>>

\* f.write of one chunk at offset off (chunks) of a file with text c
WriteAt(c, off, chunk) ==
    [i \in 1..(IF Len(c) > off + 1 THEN Len(c) ELSE off + 1) |->
        IF i = off + 1 THEN chunk
        ELSE IF i <= Len(c) THEN c[i]
        ELSE Hole]

InitConc ==
    /\ files \in [Keys -> {Absent, File(0, Dump(Knowledge(<<>>)))}]
    /\ \A k \in ModuleKeys : files[k] = Absent
    /\ now = 0
    /\ ticks = 0
    /\ cache_enabled = TRUE
    /\ last = NoOp
    /\ arg = <<>>
    /\ res = <<>>
    /\ ConcIdle
    /\ OrchIdle

\* _save_cache, open(cache_file, 'w'): the file is created or truncated and the
\* process holds a descriptor at offset 0
SaveOpen(p) ==
    /\ wr[p].pc = "idle"
    /\ \E data \in SavedResults :
         wr' = [wr EXCEPT ![p] = [pc |-> "writing", data |-> data, off |-> 0]]
    /\ files' = [files EXCEPT ![knowledge_cache_filename] = File(now, <<>>)]
    /\ UNCHANGED <<now, ticks, cache_enabled, last, fnVars, seen>>

\* _save_cache, json.dump: the next chunk of the text goes to the file at the
\* offset of the process's descriptor
SaveWrite(p) ==
    /\ wr[p].pc = "writing"
    /\ wr[p].off < ChunkCount(wr[p].data)
    /\ files' = [files EXCEPT ![knowledge_cache_filename] =
                   File(now, WriteAt(@.content, wr[p].off,
                                     Dump(wr[p].data)[wr[p].off + 1]))]
    /\ wr' = [wr EXCEPT ![p].off = @ + 1]
    /\ UNCHANGED <<now, ticks, cache_enabled, last, fnVars, seen>>

\* _save_cache, the end of the with block: the file is closed, True is returned
SaveClose(p) ==
    /\ wr[p].pc = "writing"
    /\ wr[p].off = ChunkCount(wr[p].data)
    /\ wr' = [wr EXCEPT ![p].pc = "done"]
    /\ UNCHANGED <<cacheVars, fnVars, seen>>

\* _load_cache of another run reads the index file as it is at this moment
LoadConcurrently ==
    /\ \E p \in Procs : wr[p].pc = "writing"
    /\ seen' = [did |-> TRUE, file |-> files[knowledge_cache_filename],
                data |-> _load_cache(files[knowledge_cache_filename]).data]
    /\ UNCHANGED <<cacheVars, fnVars, wr>>

NextConc ==
    /\ \/ \E p \in Procs : SaveOpen(p)
       \/ \E p \in Procs : SaveWrite(p)
       \/ \E p \in Procs : SaveClose(p)
       \/ LoadConcurrently
    /\ UNCHANGED orchVars

SpecConc == InitConc /\ [][NextConc]_vars

\* C7: cache writes are atomic and serialized per key: a read that interleaves
\* with a write never sees a partially written entry (it sees no file or the
\* complete text of one payload), and once both writers have finished the
\* entry is exactly the complete payload of one of them.
C7_AtomicSerializedWrites ==
    /\ seen.did => (~seen.file.exists \/ Whole(seen.file.content))
    /\ (\A p \in Procs : wr[p].pc = "done") =>
          \E p \in Procs : files[knowledge_cache_filename].content = Dump(wr[p].data)

(**************************** the orchestrator ******************************)
\* the azurerm resources (type and name) of the repositories considered
Resources == {"r1", "r2"}

\* which of them have a resource block in the .tf files of the repository
TfFileSets == {{}, {"r1"}, {"r1", "r2"}}

\* target_module = None
NoModule == Module(<<>>, <<>>)
ResourceMapping(r, t) == [source_resource |-> r, target_module |-> t]

\* TFMetadataAgent.scan_repository: the call raises or returns the resources
\* the inference service found (TerraformMetadataAgentResult)
ScanAnswers ==
    {[raised |-> TRUE, ret |-> {}]}
        \cup {[raised |-> FALSE, ret |-> rs] : rs \in {{}, {"r1"}, {"r1", "r2"}}}

\* MappingAgent.create_mappings: the call raises or returns a MappingAgentResult
MappingLists ==
    {<<>>,
     <<ResourceMapping("r1", P1)>>,
     <<ResourceMapping("r1", NoModule)>>,
     <<ResourceMapping("r1", P1), ResourceMapping("r2", NoModule)>>,
     <<ResourceMapping("r1", P1), ResourceMapping("r2", P2)>>,
     <<ResourceMapping("r1", P1), ResourceMapping("r2", P1)>>,
     <<ResourceMapping("r2", NoModule), ResourceMapping("r1", NoModule)>>,
     <<ResourceMapping("r2", P2), ResourceMapping("r1", P1)>>}
MappingAnswers ==
    {[raised |-> TRUE, ret |-> <<>>]}
        \cup {[raised |-> FALSE, ret |-> ms] : ms \in MappingLists}

(******************* ResourceConverterPlanningAgent *************************)
\* The text of a planner response is a sequence of tokens: the braces, '#',
\* other text "t", and the members of a JSON object: "cp_ok" is a
\* conversion_plan member the plan schema accepts, "cp_bad" one it rejects.
ResponseTokens == {"{", "}", "#", "t", "cp_ok", "cp_bad"}

\* str.find(tok, from) and str.rfind(tok), 1-based, 0 when there is none
Find(s, tok, from) ==
    LET at == {n \in from..Len(s) : s[n] = tok} IN
    IF at = {} THEN 0 ELSE CHOOSE n \in at : \A k \in at : n <= k
RFind(s, tok) ==
    LET at == {n \in 1..Len(s) : s[n] = tok} IN
    IF at = {} THEN 0 ELSE CHOOSE n \in at : \A k \in at : n >= k

\* json.loads(json_str) followed by result_dict['conversion_plan'] and
\* ResourceConversionPlan(**...): "plan" when all three succeed, else the
\* exception raised (JSONDecodeError, KeyError, ValidationError)
LoadPlan(json_str) ==
    IF json_str = <<"{", "cp_ok", "}">> THEN "plan"
    ELSE IF json_str = <<"{", "cp_bad", "}">> THEN "ValidationError"
    ELSE IF json_str = <<"{", "}">> THEN "KeyError"
    ELSE "JSONDecodeError"

\* the fields of ResourceConverterPlanningAgentResult without default
RequiredResultFields ==
    {"planning_summary", "transformation_type", "transformation_description"}

\* ResourceConverterPlanningAgentResult(**kwargs): a keyword that is not a field
\* of the model is ignored, a required field that is missing is a
\* ValidationError
ResourceConverterPlanningAgentResult(kwargs) ==
    IF RequiredResultFields \subseteq DOMAIN kwargs
    THEN [raised |-> FALSE, ret |-> kwargs]
    ELSE [raised |-> TRUE, ret |-> NoPayload]

\* _create_fallback_result
_create_fallback_result(resource_mapping, filename, response_text) ==
    ResourceConverterPlanningAgentResult(
        [conversion_plan |->
             [resource_name |-> resource_mapping.source_resource,
              source_file |-> filename,
              target_avm_module |-> resource_mapping.target_module.name,
              target_avm_version |-> resource_mapping.target_module.version,
              transformation_action |-> "convert_to_module",
              risk_level |-> "High",
              risk_notes |-> "Fallback result due to parsing error - manual review required"],
         markdown_plan |-> response_text,
         planning_summary |-> "Fallback result created due to response parsing error",
         warnings |-> <<"Failed to parse structured output from agent - using fallback">>])

\* create_conversion_plan; response = [raised, text] is what agent.get_response
\* does. An exception of the parsing block is caught and answered with the
\* fallback result; an exception of agent.get_response or of the fallback
\* result itself leaves the function.
create_conversion_plan(resource_mapping, filename, response) ==
    IF response.raised THEN [raised |-> TRUE, ret |-> NoPayload]
    ELSE
    LET response_text == response.text
        json_start == Find(response_text, "{", 1)
        json_end == RFind(response_text, "}")
        fallback == _create_fallback_result(resource_mapping, filename, response_text)
    IN
    IF json_start # 0 /\ json_end >= json_start
    THEN LET json_str == SubSeq(response_text, json_start, json_end)
             markdown_start == Find(response_text, "#", json_end + 1)
             markdown_plan ==
                 IF markdown_start = 0 THEN <<"#", "t">>
                 ELSE SubSeq(response_text, markdown_start, Len(response_text))
             result ==
                 ResourceConverterPlanningAgentResult(
                     [conversion_plan |-> [transformation_action |-> "from response"],
                      markdown_plan |-> markdown_plan,
                      planning_summary |-> "Conversion plan created",
                      warnings |-> <<>>])
         IN
         IF LoadPlan(json_str) = "plan" /\ ~result.raised THEN result ELSE fallback
    ELSE fallback

\* what agent.get_response does for the planner in a run: it raises, or it
\* answers with a plan as asked for, or with text that holds no JSON
PlannerAnswers ==
    {[raised |-> TRUE, text |-> <<>>],
     [raised |-> FALSE, text |-> <<"{", "cp_ok", "}", "#", "t">>],
     [raised |-> FALSE, text |-> <<"t">>]}

\* MappingAgent.review_mappings: after the agent answered, the text is read
\* from response.content (not response.message.content) and the log line reads
\* result.resource_mappings and result.unmapped_resources, attributes a
\* MappingAgentResult (one field, mappings) does not have: the call raises
\* whatever the answer was
review_mappings(answer) == [raised |-> TRUE, ret |-> <<>>]

\* [m for m in mapping_result.mappings if m.target_module is not None]
valid_mappings(ms) == SelectSeq(ms, LAMBDA m : m.target_module # NoModule)

\* mutant: the comparison admits equality
NeedsReview_or_equal(valid, all) == Len(valid) <= Len(all)

\* if len(valid_mappings) < len(mapping_result.mappings)
NeedsReview(valid, all) == Len(valid) < Len(all)

\* mutant: a detail that cannot be retrieved is left out and the loop goes on
RECURSIVE FetchAllDetails_tolerant(_, _, _, _, _)
FetchAllDetails_tolerant(fs, valid, i, t, enabled) ==
    LET fetched(d) ==
            [FetchAllDetails_tolerant(d.files, valid, i + 1, t, enabled)
                EXCEPT !.details = IF d.how = "raised" THEN @ ELSE <<d.ret>> \o @,
                       !.called = (IF d.calls = 1 THEN <<valid[i].target_module>>
                                   ELSE <<>>) \o @]
    IN
    IF i > Len(valid)
    THEN [files |-> fs, raised |-> FALSE, details |-> <<>>, failed |-> FALSE,
          called |-> <<>>]
    ELSE fetched(fetch_avm_resource_details(fs, valid[i].target_module, t, enabled,
                                            TRUE, <<"ok", 0>>))

\* the loop `for mapping in valid_mappings` from mapping i on: the details of
\* each target module are fetched with use_cache=True and collected; the first
\* exception ends the loop
RECURSIVE FetchAllDetails(_, _, _, _, _)
FetchAllDetails(fs, valid, i, t, enabled) ==
    LET \* the detail fetch of mapping i gave d
        fetched(d) ==
            LET asked == IF d.calls = 1 THEN <<valid[i].target_module>> ELSE <<>> IN
            IF d.how = "raised"
            THEN [files |-> d.files, raised |-> TRUE, details |-> <<>>,
                  failed |-> d.failed, called |-> asked]
            ELSE [FetchAllDetails(d.files, valid, i + 1, t, enabled)
                     EXCEPT !.details = <<d.ret>> \o @, !.called = asked \o @]
    IN
    IF i > Len(valid)
    THEN [files |-> fs, raised |-> FALSE, details |-> <<>>, failed |-> FALSE,
          called |-> <<>>]
    ELSE fetched(fetch_avm_resource_details(fs, valid[i].target_module, t, enabled,
                                            TRUE, <<"ok", 0>>))

\* the stage is entered
Enter(r, stage) == [r EXCEPT !.trace = Append(@, stage)]

\* a file of the output directory: its fixed name, and the resource its name
\* is built from ("" for the files that have one name in every run)
Artifact(name, resource) == [name |-> name, resource |-> resource]

\* open(f"{output_dir}/...", "w") and the write: the file is written once more
Write(r, name, resource) == [r EXCEPT !.artifacts = Append(@, Artifact(name, resource))]

\* the except clause of convert_repository removing what the run wrote
Fail_cleanup(r, collab_ok) ==
    [r EXCEPT !.pc = "returned", !.status = "failed", !.allok = @ /\ collab_ok,
              !.error = IF @ = "none" THEN "exception" ELSE @, !.artifacts = <<>>]

\* an exception leaves _run_sequential_workflow: the except clause of
\* convert_repository returns the result with status "failed"; collab_ok: the
\* exception did not come from a call of a collaborator; "error" of the result
\* is str(e)
Fail(r, collab_ok) ==
    [r EXCEPT !.pc = "returned", !.status = "failed", !.allok = @ /\ collab_ok,
              !.error = IF @ = "none" THEN "exception" ELSE @]

\* the head of convert_repository raising without the message
NotADirectory_no_message(r) == r

\* raise FileNotFoundError(...) at the head of convert_repository
NotADirectory(r) == [r EXCEPT !.error = "does not exist or is not a directory"]

\* the head of convert_repository with the directory made before the check
validate_repo_path_after_mkdir(r, rp) ==
    IF rp.exists THEN [r EXCEPT !.pc = "Scanning", !.output_dir = TRUE]
    ELSE Fail(NotADirectory([r EXCEPT !.output_dir = TRUE]), TRUE)

\* the head of convert_repository: FileNotFoundError unless the repository
\* path is an existing directory, and only then Path(output_dir).mkdir
validate_repo_path(r, rp) ==
    IF rp.exists THEN [r EXCEPT !.pc = "Scanning", !.output_dir = TRUE]
    ELSE Fail(NotADirectory(r), TRUE)

\* the cache directory when a run starts
OrchFiles(k) ==
    IF k = knowledge_cache_filename
    THEN {Absent, File(0, Dump(Knowledge(<<>>))), File(0, Dump(Knowledge(Enriched(<<P1>>)))),
          File(0, Dump(Corrupt("badutf8")))}
    ELSE {Absent} \cup {File(0, Dump(Details(m))) : m \in {x \in Modules : ModuleKey(x) = k}}

InitOrch ==
    /\ files \in [Keys -> UNION {OrchFiles(k) : k \in Keys}]
    /\ \A k \in Keys : files[k] \in OrchFiles(k)
    /\ now = 0
    /\ ticks = 0
    /\ cache_enabled = TRUE      \* AVMService(cache_enabled=True)
    /\ last = NoOp
    /\ arg = <<>>
    /\ res = <<>>
    /\ ConcIdle
    /\ repo \in {NoRepo} \cup {[exists |-> TRUE, tf_files |-> t] : t \in TfFileSets}
    /\ run = NotStarted

\* convert_repository up to the first stage: the path is checked, the output
\* directories are made, the .tf files are read and copied
Setup ==
    /\ run.pc = "start"
    /\ run' = validate_repo_path(run, repo)
    /\ UNCHANGED files

\* Step 1: TFMetadataAgent
Scanning ==
    /\ run.pc = "Scanning"
    /\ \E a \in ScanAnswers :
         run' = IF a.raised THEN Fail(Enter(Write(run, "original", ""), "Scanning"), FALSE)
                ELSE [Write(Enter(Write(run, "original", ""), "Scanning"),
                            "01_tf_metadata.json", "")
                          EXCEPT !.pc = "KnowledgeFetch", !.inventory = a.ret]
    /\ UNCHANGED files

\* Step 2: AVMService.fetch_avm_knowledge(use_cache=True)
KnowledgeFetch ==
    /\ run.pc = "KnowledgeFetch"
    /\ \E ag \in IF Asked(knowledge_cache_filename, "index", TRUE)
                  THEN KnowledgeAnswers ELSE {[raised |-> TRUE, ret |-> NoPayload]} :
         \E sv \in Saves(Asked(knowledge_cache_filename, "index", TRUE), ag) :
           LET entered == Enter(run, "KnowledgeFetch")
               returned(r, asked) ==
                   /\ files' = r.files
                   /\ run' = IF r.how = "raised" THEN Fail(asked, ~r.failed)
                             ELSE [Write(asked, "02_avm_knowledge.json", "")
                                       EXCEPT !.pc = "Mapping", !.knowledge = r.ret]
               fetched(r) ==
                   returned(r, [entered EXCEPT !.detail_calls = @ \o r.dcalled])
           IN
           fetched(fetch_avm_knowledge(files, now, cache_enabled, TRUE, ag, sv,
                                       <<"ok", 0>>))

\* Step 3: MappingAgent.create_mappings
Mapping ==
    /\ run.pc = "Mapping"
    /\ \E a \in MappingAnswers :
         run' = IF a.raised THEN Fail(Enter(run, "Mapping"), FALSE)
                ELSE [Write(Enter(run, "Mapping"), "03_mappings.json", "")
                          EXCEPT !.pc = "DetailEnrichment", !.mappings = a.ret]
    /\ UNCHANGED files

\* Step 4, and the same block again after the review: the details of the
\* target module of every valid mapping
Enrichment(from, to, artifact) ==
    /\ run.pc = from
    /\ LET entered == Enter(run, "DetailEnrichment")
           returned(e, asked) ==
               /\ files' = e.files
               /\ run' = IF e.raised THEN Fail(asked, ~e.failed)
                         ELSE [Write(asked, artifact, "")
                                   EXCEPT !.pc = to, !.modules_details = e.details]
           fetched(e) ==
               returned(e, [entered EXCEPT !.detail_calls = @ \o e.called])
       IN
       fetched(FetchAllDetails(files, valid_mappings(run.mappings), 1, now,
                               cache_enabled))

DetailEnrichment ==
    Enrichment("DetailEnrichment", "MappingReview", "04_avm_module_details.json")

\* the review of the mappings when some resource has no mapping
MappingReview ==
    /\ run.pc = "MappingReview"
    /\ IF NeedsReview(valid_mappings(run.mappings), run.mappings)
       THEN \E a \in MappingAnswers :
              LET r == review_mappings(a)
                  called == [Enter(run, "MappingReview") EXCEPT !.reviews = @ + 1]
              IN
              run' = IF a.raised \/ r.raised THEN Fail(called, ~a.raised)
                     ELSE [Write(called, "04_01_retry_mappings.json", "")
                               EXCEPT !.pc = "DetailEnrichment2", !.mappings = r.ret]
       ELSE run' = [run EXCEPT !.pc = "DetailEnrichment2"]
    /\ UNCHANGED files

SecondDetailEnrichment ==
    Enrichment("DetailEnrichment2", "Planning", "05_avm_module_details.json")

\* Step 5: ResourceConverterPlanningAgent.create()
StartPlanning ==
    /\ run.pc = "Planning"
    /\ \E created \in BOOLEAN :
         run' = IF created
                THEN [Enter(run, "Planning") EXCEPT !.pc = "PlanningLoop", !.i = 1,
                                                    !.resources_planings = <<>>]
                ELSE Fail(Enter(run, "Planning"), FALSE)
    /\ UNCHANGED files

\* one iteration of `for mapping_result in mapping_result.mappings`
PlanResource ==
    /\ run.pc = "PlanningLoop"
    /\ run.i <= Len(run.mappings)
    /\ LET m == run.mappings[run.i]
           avm_module_detail ==
               {j \in 1..Len(run.modules_details) :
                    run.modules_details[j].module = m.target_module}
           planned(what) ==
               [run EXCEPT !.i = @ + 1,
                           !.resources_planings =
                               Append(@, [resource |-> m.source_resource, plan |-> what])]
       IN
       IF m.target_module = NoModule THEN run' = planned("no mapping")
       ELSE IF avm_module_detail = {} THEN run' = planned("details not found")
       ELSE IF m.source_resource \notin repo.tf_files
       THEN run' = planned("source file not found")
       ELSE IF m.source_resource \notin run.inventory
       THEN run' = planned("metadata not found")
       ELSE \E a \in PlannerAnswers :
              LET r == create_conversion_plan(m, m.source_resource, a)
                  called(q) == [q EXCEPT !.planner_calls = Append(@, run.i)]
              IN
              run' = IF r.raised THEN Fail(called(run), ~a.raised)
                     ELSE Write(called(planned(r.ret)), "05_conversion_plan.md",
                                m.source_resource)
    /\ UNCHANGED files

\* Step 4 (Converter Agent): ConverterAgent.run_conversion, and the exit()
\* that follows it. exit() raises SystemExit, which is not an Exception: the
\* except clause of convert_repository does not catch it, no result is
\* returned and the statements after it (Validator Agent, Report Agent, the
\* return of the report) are never reached.
Converting ==
    /\ run.pc = "PlanningLoop"
    /\ run.i > Len(run.mappings)
    /\ \E converted \in BOOLEAN :
         run' = IF converted THEN [Enter(run, "Converting") EXCEPT !.pc = "exited"]
                ELSE Fail(Enter(run, "Converting"), FALSE)
    /\ UNCHANGED files

NextOrch ==
    /\ \/ Setup
       \/ Scanning
       \/ KnowledgeFetch
       \/ Mapping
       \/ DetailEnrichment
       \/ MappingReview
       \/ SecondDetailEnrichment
       \/ StartPlanning
       \/ PlanResource
       \/ Converting
    /\ UNCHANGED <<now, ticks, cache_enabled, last, fnVars, concVars, repo>>

SpecOrch == InitOrch /\ [][NextOrch]_vars

\* the call of convert_repository is over
Ended == run.pc \in {"returned", "exited"}

\* C8: every call of convert_repository ends by returning a result whose
\* status is completed or failed; on no path does the run end without one.
C8_EndsWithStatus == Ended => run.status \in {"completed", "failed"}

\* the stages in the order of the pipeline; the review and the second
\* enrichment belong to the enrichment step
StageOrder ==
    <<"Scanning", "KnowledgeFetch", "Mapping", "DetailEnrichment", "Planning",
      "Converting", "Validating", "Reporting">>
Rank(stage) ==
    IF stage = "MappingReview" THEN 4
    ELSE CHOOSE n \in 1..Len(StageOrder) : StageOrder[n] = stage
InOrder(trace) == \A a, b \in 1..Len(trace) : a < b => Rank(trace[a]) <= Rank(trace[b])

\* C9: the stages are entered in the order of the pipeline, and a run whose
\* repository exists and in which every collaborator call succeeded has gone
\* through all of them, Validating and Reporting after Converting included,
\* when it is over.
C9_AllStagesThenDone ==
    /\ InOrder(run.trace)
    /\ (Ended /\ repo.exists /\ run.allok) =>
          /\ \A n \in 1..Len(StageOrder) : \E a \in 1..Len(run.trace) : run.trace[a] = StageOrder[n]
          /\ run.status = "completed"

\* a mapping without target module
HasUnmapped(ms) == \E n \in 1..Len(ms) : ms[n].target_module = NoModule

\* C10: the review is invoked only at the point after the first enrichment,
\* only when it was not invoked before and some mapping has no target module;
\* and the run does not leave that point without invoking it when some mapping
\* has no target module.
C10_ReviewOnce ==
    [][/\ run'.reviews # run.reviews =>
            /\ run.pc = "MappingReview"
            /\ run.reviews = 0 /\ run'.reviews = 1
            /\ HasUnmapped(run.mappings)
       /\ (run.pc = "MappingReview" /\ run'.pc # "MappingReview"
              /\ HasUnmapped(run.mappings)) => run'.reviews = run.reviews + 1
       /\ run.reviews <= 1]_vars

\* C10 witness: the review was invoked in a run whose first enrichment fetched
\* the details of a mapped resource
C10_Witness ==
    /\ run.reviews = 1
    /\ Len(run.modules_details) = 1
    /\ HasUnmapped(run.mappings)


\* the scanned resources for which the mapper gave a target module
MappedResources(ms) ==
    {ms[n].source_resource : n \in {k \in 1..Len(ms) : ms[k].target_module # NoModule}}

\* C11: when the run leaves the point after the first enrichment and fewer
\* resources are mapped than the scan found (some scanned resource has no
\* mapping with a target module, be it that the mapper gave it no entry at
\* all), the review has been invoked.
C11_ReviewOnShortfall ==
    [][(/\ run.pc = "MappingReview" /\ run'.pc # "MappingReview"
        /\ run.inventory \ MappedResources(run.mappings) # {})
       => run'.reviews = run.reviews + 1]_vars

\* C12: a step in which the review is invoked and its collaborator returns a
\* mapping set does not fail the run: the run goes on with the second
\* enrichment (from where Planning follows).
C12_ReviewContinues ==
    [][(/\ run.pc = "MappingReview"
        /\ run'.reviews = run.reviews + 1
        /\ run'.allok)
       => (run'.pc = "DetailEnrichment2" /\ run'.status # "failed")]_vars

\* what a fetch of the details of the target module of mapping m gives now
DetailOf(m) ==
    fetch_avm_resource_details(files, m.target_module, now, cache_enabled, TRUE,
                               <<"ok", 0>>)

\* the details of the mapped resources whose own retrieval does not fail
RetrievableDetails ==
    LET ok == SelectSeq(valid_mappings(run.mappings),
                        LAMBDA m : DetailOf(m).how # "raised")
    IN [n \in 1..Len(ok) |-> DetailOf(ok[n]).ret]

\* C13: a detail enrichment never fails the run: when the retrieval of the
\* detail of some mapped resource fails, the details of the other mapped
\* resources are still collected and the run goes on.
C13_EnrichmentTolerant ==
    [][(run.pc \in {"DetailEnrichment", "DetailEnrichment2"} /\ run'.pc # run.pc)
       => (/\ run'.status # "failed"
           /\ run'.modules_details = RetrievableDetails)]_vars

\* C16: a planner response never aborts the run: a step of the planning loop
\* in which no collaborator call raised does not end the run with status
\* failed (the loop goes on to the next resource and then to Converting).
C16_MalformedNeverAborts ==
    [][(run.pc = "PlanningLoop" /\ run'.allok) => run'.status # "failed"]_vars

\* C14: when the planning loop is over, every resource of the scan inventory
\* has exactly one entry (a plan or a skip with its reason) in the planning
\* results, and there are as many entries as resources.
C14_ResourceAccounting ==
    (run.pc = "PlanningLoop" /\ run.i > Len(run.mappings)) =>
        /\ \A r \in run.inventory :
             Cardinality({n \in 1..Len(run.resources_planings) :
                              run.resources_planings[n].resource = r}) = 1
        /\ Len(run.resources_planings) = Cardinality(run.inventory)

\* the mapping has a target module, a fetched detail of that module name and
\* version, a source file with its resource block and a scan record
Eligible(m) ==
    /\ m.target_module # NoModule
    /\ \E j \in 1..Len(run.modules_details) :
          run.modules_details[j].module = m.target_module
    /\ m.source_resource \in repo.tf_files
    /\ m.source_resource \in run.inventory

\* what the claim says of a run r that has left the planning loop
PlanningAccount(r) ==
    /\ \A n \in 1..Len(r.mappings) :
          Cardinality({c \in 1..Len(r.planner_calls) : r.planner_calls[c] = n})
             = IF Eligible(r.mappings[n]) THEN 1 ELSE 0
    /\ Len(r.resources_planings) = Len(r.mappings)
    /\ \A n \in 1..Len(r.resources_planings) :
          r.resources_planings[n].resource = r.mappings[n].source_resource

\* C35: planning loop eligibility: the planner is invoked exactly once for
\* each mapping that has a target module, a fetched detail with the same
\* module name and version, a source file containing its resource block and
\* a scan-metadata record, and never for a mapping missing any of these;
\* every mapping contributes exactly one fragment to the aggregated plan, in
\* mapping order. Stated of every step with which control leaves the loop.
C35_PlanningEligibility ==
    [][(run.pc = "PlanningLoop" /\ run'.pc # "PlanningLoop")
          => PlanningAccount(run')]_vars

\* how often the details agent was asked for module m in the run
DetailCalls(r, m) ==
    Cardinality({c \in 1..Len(r.detail_calls) : r.detail_calls[c] = m})

NameTokens == {"avm", "_"}
VersionTokens == {"knowledge", ".", "-", "_"}

Strings(tokens, n) == UNION {[1..i -> tokens] : i \in 1..n}

\* (module name, module version) pairs of at most MaxKeyLen tokens in all
Pairs ==
    {Module(n, v) : n \in Strings(NameTokens, MaxKeyLen - 1),
                    v \in Strings(VersionTokens, MaxKeyLen - 1)}
BoundedPairs == {p \in Pairs : Len(p.name) + Len(p.version) <= MaxKeyLen}

InitKey ==
    /\ arg \in BoundedPairs \X BoundedPairs
    /\ res = <<>>
    /\ files = [k \in Keys |-> Absent]
    /\ now = 0
    /\ ticks = 0
    /\ cache_enabled = TRUE
    /\ last = NoOp
    /\ ConcIdle
    /\ OrchIdle

\* the file names fetch_avm_resource_details derives for the two pairs
DeriveKeys ==
    /\ res = <<>>
    /\ res' = <<_get_module_cache_filename(arg[1].name, arg[1].version),
                _get_module_cache_filename(arg[2].name, arg[2].version)>>
    /\ UNCHANGED <<arg, cacheVars, concVars, orchVars>>

NextKey == DeriveKeys

SpecKey == InitKey /\ [][NextKey]_vars

Has(s, tok) == \E i \in 1..Len(s) : s[i] = tok

\* C5 (as claimed): distinct pairs have distinct keys, and no module key is the
\* key of the index.
C5_KeysDistinct ==
    res # <<>> =>
        /\ arg[1] # arg[2] => res[1] # res[2]
        /\ res[1] # knowledge_cache_filename

\* C5 (amended): among pairs whose names hold no underscore and whose versions
\* hold no dash, distinct pairs have distinct keys; the key of such a pair is
\* the key of the index only for the pair ("avm", "knowledge").
Plain(p) == ~Has(p.name, "_") /\ ~Has(p.version, "-")

C5_PlainKeysDistinct ==
    res # <<>> =>
        /\ (Plain(arg[1]) /\ Plain(arg[2]) /\ arg[1] # arg[2]) => res[1] # res[2]
        /\ (Plain(arg[1]) /\ arg[1] # Module(<<"avm">>, <<"knowledge">>))
              => res[1] # knowledge_cache_filename

\* C5 witness: the keys of two plain pairs that differ in the version only
C5_Witness ==
    /\ res # <<>>
    /\ Plain(arg[1]) /\ Plain(arg[2])
    /\ arg[1].name = arg[2].name /\ arg[1].version # arg[2].version
    /\ Has(arg[1].version, ".")

\* the fix iterations main.py allows after a validation: Step 5 validates
\* once and Step 6 reports, no fix step stands between them
max_fix_iterations == 0

\* the number of Fixing iterations of a run
FixingIterations(trace) == Cardinality({a \in 1..Len(trace) : trace[a] = "Fixing"})

\* C18: the number of Fixing iterations of a run never exceeds the fixed
\* maximum, and a run whose conversion step returned leaves the
\* Validating/Fixing loop for Reporting: once it is over it has validated and
\* has entered Reporting.
C18_BoundedFixLoop ==
    /\ FixingIterations(run.trace) <= max_fix_iterations
    /\ (run.pc = "exited") =>
          /\ \E a \in 1..Len(run.trace) : run.trace[a] = "Validating"
          /\ \E a \in 1..Len(run.trace) : run.trace[a] = "Reporting"

\* the files of the output directory that hold the result of a stage
StageArtifacts(stage) ==
    CASE stage = "Scanning" -> {Artifact("01_tf_metadata.json", "")}
      [] stage = "KnowledgeFetch" -> {Artifact("02_avm_knowledge.json", "")}
      [] stage = "Mapping" -> {Artifact("03_mappings.json", "")}
      [] stage = "DetailEnrichment" -> {Artifact("04_avm_module_details.json", ""),
                                        Artifact("05_avm_module_details.json", "")}
      [] stage = "Planning" -> {Artifact("05_conversion_plan.md", r) : r \in Resources}
      [] OTHER -> {}

\* the stages whose result is to be found on disk by the stages after them
PersistedStages ==
    {"Scanning", "KnowledgeFetch", "Mapping", "DetailEnrichment", "Planning", "Converting"}

\* C19: every stage persists its result as an artifact file before the next
\* stage starts: once a later stage has been entered, a file holding the
\* result of each of the stages Scanning, KnowledgeFetch, Mapping,
\* DetailEnrichment, Planning and Converting entered before it is among the
\* files written, and no file is written twice in a run.
C19_ArtifactTrail ==
    /\ \A n \in 1..(Len(run.trace) - 1) :
          run.trace[n] \in PersistedStages =>
              \E a \in 1..Len(run.artifacts) : run.artifacts[a] \in StageArtifacts(run.trace[n])
    /\ \A a, b \in 1..Len(run.artifacts) : a # b => run.artifacts[a] # run.artifacts[b]

\* C20: when the repository path does not exist or is not a directory,
\* convert_repository enters no stage and invokes no collaborator, writes no
\* artifact and does not create the output directory; it returns failed.
C20_SetupFailureAborts ==
    (~repo.exists /\ run.pc # "start") =>
        /\ run.pc = "returned" /\ run.status = "failed"
        /\ run.trace = <<>> /\ run.reviews = 0 /\ run.allok
        /\ run.artifacts = <<>>
        /\ ~run.output_dir

\* C20 witness: the call on a path that is no directory has returned
C20_Witness == ~repo.exists /\ run.pc = "returned" /\ run.status = "failed"

C22_ArtifactsSurviveFailure ==
    [][(run'.status = "failed") =>
          /\ Len(run'.artifacts) >= Len(run.artifacts)
          /\ SubSeq(run'.artifacts, 1, Len(run.artifacts)) = run.artifacts
          /\ \A b \in (Len(run.artifacts) + 1)..Len(run'.artifacts) :
                \A a \in 1..Len(run.artifacts) : run'.artifacts[b] # run.artifacts[a]]_vars

\* C22 witness: a run has failed in the mapping stage with the original/ copy
\* and the files of the two stages before it on disk
C22_Witness ==
    /\ run.status = "failed"
    /\ run.trace = <<"Scanning", "KnowledgeFetch", "Mapping">>
    /\ run.artifacts = <<Artifact("original", ""), Artifact("01_tf_metadata.json", ""),
                         Artifact("02_avm_knowledge.json", "")>>

\* the place of a resource in the order by resource type and name
ResourceKey(r) == IF r = "r1" THEN 1 ELSE 2

\* C30: the plan fragments aggregated for the conversion stage are ordered by
\* resource type and name, whatever the order in which the mapper listed the
\* mappings: when the converter is invoked, resources_planings is sorted.
C30_PlanOrder ==
    (\E n \in 1..Len(run.trace) : run.trace[n] = "Converting") =>
        \A a, b \in 1..Len(run.resources_planings) :
            a < b => ResourceKey(run.resources_planings[a].resource)
                        <= ResourceKey(run.resources_planings[b].resource)

(**************** create_conversion_plan as a pure function ******************)
\* the planner responses of at most MaxResponseLen tokens
Responses ==
    {[raised |-> FALSE, text |-> t] : t \in {<<>>} \cup Strings(ResponseTokens, MaxResponseLen)}

InitPlan ==
    /\ arg \in {ResourceMapping("r1", P1), ResourceMapping("r2", P2)} \X Responses
    /\ res = <<>>
    /\ files = [k \in Keys |-> Absent]
    /\ now = 0
    /\ ticks = 0
    /\ cache_enabled = TRUE
    /\ last = NoOp
    /\ ConcIdle
    /\ OrchIdle

\* the planning loop calls create_conversion_plan for the mapping
PlanOne ==
    /\ res = <<>>
    /\ res' = <<create_conversion_plan(arg[1], arg[1].source_resource, arg[2])>>
    /\ UNCHANGED <<arg, cacheVars, concVars, orchVars>>

NextPlan == PlanOne

SpecPlan == InitPlan /\ [][NextPlan]_vars

\* the response holds no plan object: between its first '{' and its last '}'
\* there is not exactly one conversion_plan member the schema accepts
Malformed(text) ==
    ~\E n \in 1..Len(text) :
        /\ n + 2 <= Len(text)
        /\ SubSeq(text, n, n + 2) = <<"{", "cp_ok", "}">>
        /\ \A k \in 1..Len(text) : (text[k] = "{" => k >= n) /\ (text[k] = "}" => k <= n + 2)

\* C15: for a response without parseable JSON or failing the schema,
\* create_conversion_plan returns a plan with transformation action
\* manual-review and risk level High, carrying the response text verbatim and
\* a non-empty warning list.
C15_FallbackPlan ==
    (res # <<>> /\ Malformed(arg[2].text)) =>
        /\ ~res[1].raised
        /\ res[1].ret.conversion_plan.transformation_action = "manual-review"
        /\ res[1].ret.conversion_plan.risk_level = "High"
        /\ res[1].ret.markdown_plan = arg[2].text
        /\ res[1].ret.warnings # <<>>

(********************** plan_fixes as a pure function ************************)
MaxErrorFiles == 2
MaxErrorsPerFile == 2

\* TerraformValidatorAgentResult: the flag and the per-file error groups, each
\* group given by the length of its errors list
ValidationResults ==
    {[validation_success |-> ok, errors |-> e] :
        ok \in BOOLEAN,
        e \in UNION {[1..n -> 0..MaxErrorsPerFile] : n \in 0..MaxErrorFiles}}

\* the number of errors a validation result contains, over all its groups
RECURSIVE TotalErrors(_)
TotalErrors(errors) ==
    IF errors = <<>> THEN 0 ELSE Head(errors) + TotalErrors(Tail(errors))

NoFixPlan ==
    [fix_plan |-> <<>>, total_fixable_errors |-> 0, total_manual_review_required |-> 0,
     recommended_fix_order |-> <<>>, critical_issues |-> <<>>]

\* what the fix-planner collaborator answers: it raises, or its content is
\* not JSON, or JSON the schema rejects, or a fix plan
FixPlannerAnswers ==
    {[raised |-> TRUE, content |-> "none", plan |-> NoFixPlan],
     [raised |-> FALSE, content |-> "not_json", plan |-> NoFixPlan],
     [raised |-> FALSE, content |-> "bad_schema", plan |-> NoFixPlan],
     [raised |-> FALSE, content |-> "plan", plan |-> NoFixPlan],
     [raised |-> FALSE, content |-> "plan",
      plan |-> [fix_plan |-> <<"main.tf">>, total_fixable_errors |-> 1,
                total_manual_review_required |-> 0,
                recommended_fix_order |-> <<"main.tf">>, critical_issues |-> <<>>]],
     [raised |-> FALSE, content |-> "plan",
      plan |-> [fix_plan |-> <<"main.tf">>, total_fixable_errors |-> 0,
                total_manual_review_required |-> 1,
                recommended_fix_order |-> <<"main.tf">>, critical_issues |-> <<"main.tf">>]]}

\* plan_fixes with the early return taken when the error groups hold no error
plan_fixes_on_error_count(validation_result, response) ==
    IF TotalErrors(validation_result.errors) = 0
    THEN [raised |-> FALSE, invoked |-> 0, ret |-> NoFixPlan]
    ELSE IF response.raised \/ response.content # "plan"
    THEN [raised |-> TRUE, invoked |-> 1, ret |-> NoFixPlan]
    ELSE [raised |-> FALSE, invoked |-> 1, ret |-> response.plan]

\* plan_fixes: the early return is taken on the validation_success flag; the
\* files of the error groups are read under try/except and only feed the
\* message; invoked counts the calls of agent.get_response
plan_fixes(validation_result, response) ==
    IF validation_result.validation_success
    THEN [raised |-> FALSE, invoked |-> 0, ret |-> NoFixPlan]
    ELSE IF response.raised \/ response.content # "plan"
    THEN [raised |-> TRUE, invoked |-> 1, ret |-> NoFixPlan]
    ELSE [raised |-> FALSE, invoked |-> 1, ret |-> response.plan]

InitFix ==
    /\ arg \in ValidationResults \X FixPlannerAnswers
    /\ res = <<>>
    /\ files = [k \in Keys |-> Absent]
    /\ now = 0
    /\ ticks = 0
    /\ cache_enabled = TRUE
    /\ last = NoOp
    /\ ConcIdle
    /\ OrchIdle

\* a caller plans the fixes of the validation result
PlanFixes ==
    /\ res = <<>>
    /\ res' = <<plan_fixes(arg[1], arg[2])>>
    /\ UNCHANGED <<arg, cacheVars, concVars, orchVars>>

NextFix == PlanFixes

SpecFix == InitFix /\ [][NextFix]_vars

MaxConstraints == 3

\* a version X.Y.Z, and the order of versions by their numbers
Version(x, y, z) == <<x, y, z>>
VLess(a, b) ==
    \/ a[1] < b[1]
    \/ a[1] = b[1] /\ a[2] < b[2]
    \/ a[1] = b[1] /\ a[2] = b[2] /\ a[3] < b[3]
VMax(vs) == CHOOSE v \in vs : \A w \in vs : ~VLess(v, w)
VMin(vs) == CHOOSE v \in vs : \A w \in vs : ~VLess(w, v)

\* the two forms of constraint string: "~>X.Y" and ">=A,<B"
Pessimistic(x, y) == [form |-> "~>", lo |-> Version(x, y, 0), hi |-> Version(x, y, 0)]
Bounds(a, b) == [form |-> ">=,<", lo |-> a, hi |-> b]

\* the strings of the required_providers sections: provider and constraint
Required(provider, constraint) == [provider |-> provider, constraint |-> constraint]
ConstraintStrings ==
    {Required("azurerm", Bounds(Version(4, 8, 0), Version(5, 0, 0))),
     Required("azurerm", Bounds(Version(4, 19, 0), Version(5, 0, 0))),
     Required("random", Pessimistic(3, 5)),
     Required("random", Pessimistic(3, 6)),
     Required("random", Bounds(Version(3, 6, 0), Version(3, 7, 0))),
     Required("modtm", Pessimistic(0, 3)),
     Required("time", Pessimistic(0, 9)),
     Required("time", Pessimistic(0, 12)),
     Required("time", Bounds(Version(0, 12, 0), Version(0, 14, 0)))}

Providers == {"azurerm", "random", "modtm", "time"}

\* "Normalize each constraint": ~>X.Y => >=X.Y.0, <X.(Y+1).0; >=A,<B kept
Normalize(c) ==
    IF c.form = "~>"
    THEN [lo |-> c.lo, hi |-> Version(c.lo[1], c.lo[2] + 1, 0)]
    ELSE [lo |-> c.lo, hi |-> c.hi]

\* a range expressed the way the last rule of 8.3 says: ~>X.Y for a clean
\* minor series, the explicit >= / < form otherwise
Render(r) ==
    IF r.lo[3] = 0 /\ r.hi = Version(r.lo[1], r.lo[2] + 1, 0)
    THEN Pessimistic(r.lo[1], r.lo[2])
    ELSE Bounds(r.lo, r.hi)

MergedConstraint(lower, upper, rendering, conflict) ==
    [lower |-> lower, upper |-> upper, rendering |-> rendering, conflict |-> conflict]

\* "Group by provider name": the constraints of one provider
Group(input, provider) ==
    {input[n].constraint : n \in {k \in 1..Len(input) : input[k].provider = provider}}

\* "Lower bound = highest >= / >"
Lower(ranges) == VMax({r.lo : r \in ranges})

\* "Upper bound = lowest < / <="
Upper(ranges) == VMin({r.hi : r \in ranges})

\* the rules of 8.3 for one provider: the intersection, or for an empty
\* intersection a range with the highest lower bound and the warning; the
\* rule does not say which one when several ranges start there
Intersect(constraints) ==
    LET ranges == {Normalize(c) : c \in constraints} IN
    IF VLess(Lower(ranges), Upper(ranges))
    THEN {MergedConstraint(Lower(ranges), Upper(ranges),
                           Render([lo |-> Lower(ranges), hi |-> Upper(ranges)]), FALSE)}
    ELSE {MergedConstraint(r.lo, r.hi, Render(r), TRUE) :
             r \in {q \in ranges : q.lo = VMax({x.lo : x \in ranges})}}

\* Example 1 of 8.4, the pattern to follow: what its Processing lines give
\* for azurerm and for random
Example1(constraints) ==
    IF constraints = {Bounds(Version(4, 8, 0), Version(5, 0, 0)),
                      Bounds(Version(4, 19, 0), Version(5, 0, 0))}
    THEN {MergedConstraint(Version(4, 8, 0), Version(5, 0, 0),
                           Bounds(Version(4, 8, 0), Version(5, 0, 0)), FALSE)}
    ELSE IF constraints = {Pessimistic(3, 5), Pessimistic(3, 6)}
    THEN {MergedConstraint(Version(3, 6, 0), Version(4, 0, 0), Pessimistic(3, 6), FALSE)}
    ELSE {}

\* what the instructions prescribe for one provider: the rules, and for the
\* constraints of the worked example also what the example shows
Merged(constraints) == Intersect(constraints) \cup Example1(constraints)

\* providers emitted for every provider of the strings
Consolidate_all_providers(input) ==
    {m \in [Providers -> UNION {Merged(Group(input, p)) : p \in {q \in Providers : Group(input, q) # {}}}
                         \cup {MergedConstraint(Version(0, 0, 0), Version(0, 0, 0),
                                                Bounds(Version(0, 0, 0), Version(0, 0, 0)), FALSE)}] :
        \A p \in Providers : Group(input, p) # {} => m[p] \in Merged(Group(input, p))}

\* the consolidated required_providers: one merged constraint for each
\* provider that has a constraint string, no other provider
Consolidate(input) ==
    LET present == {p \in Providers : Group(input, p) # {}} IN
    {m \in [present -> UNION {Merged(Group(input, p)) : p \in present}] :
        \A p \in present : m[p] \in Merged(Group(input, p))}

InitCons ==
    /\ arg \in {<<>>} \cup Strings(ConstraintStrings, MaxConstraints)
    /\ res = <<>>
    /\ files = [k \in Keys |-> Absent]
    /\ now = 0
    /\ ticks = 0
    /\ cache_enabled = TRUE
    /\ last = NoOp
    /\ ConcIdle
    /\ OrchIdle

\* the converter consolidates the strings it collected from the plans
ConsolidateProviders ==
    /\ res = <<>>
    /\ \E m \in Consolidate(arg) : res' = <<m>>
    /\ UNCHANGED <<arg, cacheVars, concVars, orchVars>>

NextCons == ConsolidateProviders

SpecCons == InitCons /\ [][NextCons]_vars

\* the normalized ranges of a provider in the input
Ranges(input, provider) == {Normalize(c) : c \in Group(input, provider)}

\* C23: for every provider whose ranges intersect, the merged lower bound is
\* the maximum of the lower bounds of its normalized ranges and the merged
\* upper bound is the minimum of their upper bounds; in particular azurerm
\* [">=4.8.0,<5.0.0", ">=4.19.0,<5.0.0"] consolidates to >=4.19.0, <5.0.0.
C23_Intersection ==
    res # <<>> =>
        \A p \in DOMAIN res[1] :
            /\ ~res[1][p].conflict =>
                  /\ res[1][p].lower = Lower(Ranges(arg, p))
                  /\ res[1][p].upper = Upper(Ranges(arg, p))
            /\ Group(arg, p) = {Bounds(Version(4, 8, 0), Version(5, 0, 0)),
                                Bounds(Version(4, 19, 0), Version(5, 0, 0))} =>
                  res[1][p] = MergedConstraint(Version(4, 19, 0), Version(5, 0, 0),
                                               Bounds(Version(4, 19, 0), Version(5, 0, 0)), FALSE)

\* the lists that hold the same strings as the input, in any order and with
\* any repetition
Variants(input) ==
    LET strings == {input[n] : n \in 1..Len(input)} IN
    {v \in {<<>>} \cup Strings(strings, MaxConstraints) :
        {v[n] : n \in 1..Len(v)} = strings}

C25_ConflictResolution ==
    /\ Consolidate(arg) # {}
    /\ res # <<>> =>
          \A p \in DOMAIN res[1] :
              LET empty == ~VLess(Lower(Ranges(arg, p)), Upper(Ranges(arg, p))) IN
              /\ res[1][p].conflict <=> empty
              /\ empty =>
                    /\ [lo |-> res[1][p].lower, hi |-> res[1][p].upper] \in Ranges(arg, p)
                    /\ res[1][p].lower = Lower(Ranges(arg, p))
              /\ Group(arg, p) = {Pessimistic(0, 9), Pessimistic(0, 12)} =>
                    res[1][p] = MergedConstraint(Version(0, 12, 0), Version(0, 13, 0),
                                                 Pessimistic(0, 12), TRUE)

\* C26: the normalization rule, the intersection and the rendering applied
\* to random ["~>3.5", "~>3.6"] give a merged constraint without conflict,
\* with the range [3.6, 4.0) rendered as ~>3.6, the bounds being those of the
\* intersection of the normalized ranges, under the normalization rule under
\* which time ["~>0.9", "~>0.12"] is a conflict.
C26_RandomExample ==
    res # <<>> =>
        \A p \in DOMAIN res[1] :
            Group(arg, p) = {Pessimistic(3, 5), Pessimistic(3, 6)} =>
                /\ res[1][p] = MergedConstraint(Version(3, 6, 0), Version(4, 0, 0),
                                                Pessimistic(3, 6), FALSE)
                /\ res[1][p].lower = Lower(Ranges(arg, p))
                /\ res[1][p].upper = Upper(Ranges(arg, p))
                /\ \A m \in Intersect({Pessimistic(0, 9), Pessimistic(0, 12)}) : m.conflict

\* C27: a merged range is rendered as ~>X.Y if and only if it is exactly
\* [X.Y.0, X.(Y+1).0), as a pin when its bounds are equal, in the explicit
\* >= / < form otherwise, and normalizing the rendering gives back exactly the
\* merged range.
C27_RenderingRoundTrip ==
    res # <<>> =>
        \A p \in DOMAIN res[1] :
            LET m == res[1][p] IN
            /\ m.rendering.form = "~>" <=>
                  (m.lower[3] = 0 /\ m.upper = Version(m.lower[1], m.lower[2] + 1, 0))
            /\ m.lower = m.upper => m.rendering.form = "="
            /\ m.rendering.form = ">=,<" =>
                  (m.rendering.lo = m.lower /\ m.rendering.hi = m.upper)
            /\ Normalize(m.rendering) = [lo |-> m.lower, hi |-> m.upper]

providers == <<"azurerm", "azure">>

\* what the registry answers to the request for one provider namespace: the
\* request fails, or a status with a body that is JSON or not
RegistryAnswers ==
    {[failed |-> TRUE, status |-> 0, body |-> "none"]} \cup
    {[failed |-> FALSE, status |-> st, body |-> b] :
        st \in {200, 404, 500}, b \in {"details_m", "details_n", "not_json"}}

\* the loop over the provider namespaces from namespace n on; requests counts
\* the session.get calls; falling out of the loop returns None
RECURSIVE get_avm_module_details_json(_, _)
get_avm_module_details_json(answers, n) ==
    IF n > Len(providers)
    THEN [raised |-> FALSE, ret |-> "None", requests |-> 0]
    ELSE IF answers[n].failed
    THEN [raised |-> TRUE, ret |-> "None", requests |-> 1]
    ELSE IF answers[n].status = 200
    THEN [raised |-> answers[n].body = "not_json",
          ret |-> IF answers[n].body = "not_json" THEN "None" ELSE answers[n].body,
          requests |-> 1]
    ELSE IF answers[n].status = 404
    THEN LET next == get_avm_module_details_json(answers, n + 1) IN
         [next EXCEPT !.requests = @ + 1]
    ELSE [raised |-> TRUE, ret |-> "None", requests |-> 1]

InitCatalog ==
    /\ arg \in [1..Len(providers) -> RegistryAnswers]
    /\ res = <<>>
    /\ files = [k \in Keys |-> Absent]
    /\ now = 0
    /\ ticks = 0
    /\ cache_enabled = TRUE
    /\ last = NoOp
    /\ ConcIdle
    /\ OrchIdle

\* a caller asks the registry for the details of a module
GetModuleDetails ==
    /\ res = <<>>
    /\ res' = <<get_avm_module_details_json(arg, 1)>>
    /\ UNCHANGED <<arg, cacheVars, concVars, orchVars>>

NextCatalog == GetModuleDetails

SpecCatalog == InitCatalog /\ [][NextCatalog]_vars

\* C29: get_avm_module_details_json asks the alternate provider namespace
\* after a 404, and if every namespace answers 404 the call ends in an error
\* rather than returning a value to the caller.
C29_NotFoundIsAnError ==
    res # <<>> =>
        /\ (~arg[1].failed /\ arg[1].status = 404) => res[1].requests = 2
        /\ (\A n \in 1..Len(providers) : ~arg[n].failed /\ arg[n].status = 404) =>
              res[1].raised

(************************ the copy to original/ ******************************)
\* relative paths under the repository path: directory and file name
RepoPaths ==
    {<<"", "main.tf">>, <<"", "variables.tf">>, <<"modules", "main.tf">>,
     <<"modules", "variables.tf">>, <<"", "README.md">>}

\* a repository: every path is missing or a file with some content
Repositories == [RepoPaths -> {"missing", "content_a", "content_b"}]

\* Path(repo_path).rglob("*.tf")
rglob_tf(tree) == {p \in RepoPaths : tree[p] # "missing" /\ p[2] \in {"main.tf", "variables.tf"}}

\* shutil.copy(tf_file, original_output_dir / tf_file.name) for every file of
\* rglob, in the order rglob yields them: the target is named by the file
\* name alone, so of the files with one name the last one copied is what
\* original/ holds
copy_original(tree) ==
    LET names == {p[2] : p \in rglob_tf(tree)} IN
    {original \in [names -> {"content_a", "content_b"}] :
        \A n \in names : \E p \in rglob_tf(tree) : p[2] = n /\ tree[p] = original[n]}

InitCopy ==
    /\ arg \in {<<tree>> : tree \in Repositories}
    /\ res = <<>>
    /\ files = [k \in Keys |-> Absent]
    /\ now = 0
    /\ ticks = 0
    /\ cache_enabled = TRUE
    /\ last = NoOp
    /\ ConcIdle
    /\ OrchIdle

\* the copy step at the head of _run_sequential_workflow
CopyOriginal ==
    /\ res = <<>>
    /\ \E original \in copy_original(arg[1]) : res' = <<original>>
    /\ UNCHANGED <<arg, cacheVars, concVars, orchVars>>

NextCopy == CopyOriginal

SpecCopy == InitCopy /\ [][NextCopy]_vars

\* C31: after the copy step original/ holds a copy of every .tf file found
\* under the repository path, each with its own content, files of the same
\* name in different sub-directories included: as many files as were found,
\* and for every file found one with its content.
C31_OriginalHoldsEveryFile ==
    res # <<>> =>
        /\ Cardinality(DOMAIN res[1]) = Cardinality(rglob_tf(arg[1]))
        /\ \A p \in rglob_tf(arg[1]) : \E n \in DOMAIN res[1] : res[1][n] = arg[1][p]

(************** TerraformService.validate_terraform and its caller ***********)
\* what validate_terraform finds: the directory, and how the two commands end
\* if they are run
ValidationEnvs ==
    [directory : {"missing", "not_a_directory", "no_tf_files", "tf_files"},
     init : {"exit_0", "exit_1", "timeout", "cli_not_found", "os_error"},
     validate : {"exit_0_json", "exit_0_no_output", "exit_1_diagnostics",
                 "exit_1_not_json", "exit_1_no_output", "timeout"}]

\* the results of validate_terraform with the timeout handler raising again
TerraformValidationResult_timeout_escapes(success, error_message, validation_data, commands) ==
    [raised |-> error_message = "Terraform command timed out", success |-> success,
     error_message |-> error_message, validation_data |-> validation_data,
     commands |-> commands]

\* what a call of validate_terraform gives its caller: every path returns
TerraformValidationResult(success, error_message, validation_data, commands) ==
    [raised |-> FALSE, success |-> success, error_message |-> error_message,
     validation_data |-> validation_data, commands |-> commands]

\* validate_terraform: the checks of the directory, then terraform init and
\* terraform validate -json inside the try; commands lists the subprocess.run
\* calls made
validate_terraform(env) ==
    CASE env.directory = "missing" ->
            TerraformValidationResult(FALSE, "Directory does not exist", "None", <<>>)
      [] env.directory = "not_a_directory" ->
            TerraformValidationResult(FALSE, "Path is not a directory", "None", <<>>)
      [] env.directory = "no_tf_files" ->
            TerraformValidationResult(FALSE, "No .tf files found in directory", "None", <<>>)
      [] OTHER ->
            CASE env.init = "timeout" ->
                    TerraformValidationResult(FALSE, "Terraform command timed out", "None",
                                              <<"init">>)
              [] env.init = "cli_not_found" ->
                    TerraformValidationResult(FALSE, "Terraform CLI not found", "None",
                                              <<"init">>)
              [] env.init = "os_error" ->
                    TerraformValidationResult(FALSE, "Unexpected error during Terraform validation",
                                              "None", <<"init">>)
              [] env.init = "exit_1" ->
                    TerraformValidationResult(FALSE, "Terraform init failed", "None", <<"init">>)
              [] OTHER ->
                    CASE env.validate = "timeout" ->
                            TerraformValidationResult(FALSE, "Terraform command timed out",
                                                      "None", <<"init", "validate">>)
                      [] env.validate = "exit_0_json" ->
                            TerraformValidationResult(TRUE, "None", "json", <<"init", "validate">>)
                      [] env.validate = "exit_0_no_output" ->
                            TerraformValidationResult(TRUE, "None", "None", <<"init", "validate">>)
                      [] env.validate = "exit_1_diagnostics" ->
                            TerraformValidationResult(FALSE, "Terraform validation failed with errors",
                                                      "json", <<"init", "validate">>)
                      [] env.validate = "exit_1_not_json" ->
                            TerraformValidationResult(FALSE, "Terraform validation failed",
                                                      "raw_output", <<"init", "validate">>)
                      [] OTHER ->
                            TerraformValidationResult(FALSE, "Terraform validation failed",
                                                      "None", <<"init", "validate">>)

\* what the error-analysis collaborator answers: it raises, or its content
\* is no JSON of the schema, or an analysis
AnalysisAnswers == {"raises", "not_valid", "analysis"}

\* validate_and_analyze: the success result without the collaborator, and for
\* every other result of validate_terraform the collaborator; the log line
\* after the analysis reads result.total_errors, which
\* TerraformValidatorAgentResult does not have
validate_and_analyze(env, answer) ==
    LET validation_result == validate_terraform(env) IN
    IF validation_result.success
    THEN [raised |-> FALSE, validation_success |-> TRUE, analysed |-> 0, error |-> "none"]
    ELSE [raised |-> TRUE, validation_success |-> FALSE, analysed |-> 1,
          error |-> CASE answer = "raises" -> "collaborator"
                      [] answer = "not_valid" -> "ValidationError"
                      [] OTHER -> "AttributeError"]

InitValidate ==
    /\ arg \in ValidationEnvs \X AnalysisAnswers
    /\ res = <<>>
    /\ files = [k \in Keys |-> Absent]
    /\ now = 0
    /\ ticks = 0
    /\ cache_enabled = TRUE
    /\ last = NoOp
    /\ ConcIdle
    /\ OrchIdle

\* a caller validates the converted directory
ValidateAndAnalyze ==
    /\ res = <<>>
    /\ res' = <<[terraform |-> validate_terraform(arg[1]),
                 agent |-> validate_and_analyze(arg[1], arg[2])]>>
    /\ UNCHANGED <<arg, cacheVars, concVars, orchVars>>

NextValidate == ValidateAndAnalyze

SpecValidate == InitValidate /\ [][NextValidate]_vars

\* a command of the validation exceeded its timeout
TimedOut(env) ==
    /\ env.directory = "tf_files"
    /\ env.init = "timeout" \/ (env.init = "exit_0" /\ env.validate = "timeout")

\* C32: a validator CLI timeout is fatal: when terraform init or terraform
\* validate exceeds its timeout, the validation ends in failure and the
\* error-analysis collaborator is not invoked for it.
C32_TimeoutIsFatal ==
    (res # <<>> /\ TimedOut(arg[1])) =>
        /\ ~res[1].terraform.success
        /\ res[1].agent.analysed = 0

\* C39: validate_terraform never raises: every failure (missing directory,
\* no .tf files, init failure, validate failure, timeout, CLI not installed)
\* is returned as a result with success = false and a non-empty message;
\* terraform validate is run only after terraform init exited with 0, and
\* success = true is returned only when both commands exited with 0.
C39_ValidateNeverRaises ==
    res # <<>> =>
        LET t == res[1].terraform
            env == arg[1]
            both_0 == /\ env.directory = "tf_files" /\ env.init = "exit_0"
                      /\ env.validate \in {"exit_0_json", "exit_0_no_output"}
        IN
        /\ ~t.raised
        /\ t.success <=> both_0
        /\ ~t.success => t.error_message \notin {"", "None"}
        /\ (\E n \in 1..Len(t.commands) : t.commands[n] = "validate") =>
              (env.init = "exit_0" /\ t.commands = <<"init", "validate">>)

\* C39 witness: terraform validate timed out after a clean init, and the
\* call has returned
C39_Witness ==
    /\ res # <<>>
    /\ arg[1].directory = "tf_files" /\ arg[1].init = "exit_0"
    /\ arg[1].validate = "timeout"
    /\ ~res[1].terraform.success

\* ---------------------------------------------------------------------------
\* run_workflow of the graph orchestrator (src/src/orchestrator/graph.py)
\* ---------------------------------------------------------------------------

\* the inputs of a run: the repository argument and what settings.output_dir
\* names on disk before the run
WorkflowEnvs ==
    { e \in [repo_url : {"./repo_basic", "https://example/repo.git", ""},
             output_dir : {"absent", "directory", "regular_file", "read_only"},
             reports : {"absent", "directory", "regular_file", "read_only"},
             report_file : {"absent", "stale", "read_only"}] :
        /\ e.output_dir \in {"absent", "regular_file"} => e.reports = "absent"
        /\ e.reports \in {"absent", "regular_file"} => e.report_file = "absent" }

\* the scanner stub ignores its input and returns a fixed manifest
scan_repo_stub(repo_url) == <<"main.tf", "network.tf">>

\* the converter stub: mkdir(parents, exist_ok) of output_dir/repo1_avm and
\* four write_text calls; an OSError of either leaves the step by exception
convert_repo(env) ==
    IF env.output_dir \in {"regular_file", "read_only"}
    THEN [raised |-> TRUE, converted_repo_path |-> "None"]
    ELSE [raised |-> FALSE, converted_repo_path |-> "output/repo1_avm"]

\* the validator stub always returns failed
validate(cr) == [status |-> "failed", errors |-> 1]

FinalOutcome(status, converted_repo_path, report_path, written) ==
    [raised |-> FALSE, status |-> status,
     converted_repo_path |-> converted_repo_path,
     report_path |-> report_path, report_written |-> written]

WorkflowRaised ==
    [raised |-> TRUE, status |-> "None", converted_repo_path |-> "None",
     report_path |-> "None", report_written |-> FALSE]

\* _node_finalize: success carries the converted path; anything else writes
\* output_dir/reports/report_repo1.md and carries its path
_node_finalize(env, vr, cr) ==
    IF vr.status = "success"
    THEN FinalOutcome("success", cr.converted_repo_path, "None", FALSE)
    ELSE IF \/ env.reports = "regular_file"
            \/ (env.reports = "read_only" /\ env.report_file = "absent")
            \/ env.report_file = "read_only"
         THEN WorkflowRaised
         ELSE FinalOutcome("failed", "None",
                           "output/reports/report_repo1.md", TRUE)

\* the linear graph repo_scanner .. finalize; no node catches an exception
run_workflow(env) ==
    LET manifest == scan_repo_stub(env.repo_url)
        cr == convert_repo(env)
    IN IF cr.raised THEN WorkflowRaised
       ELSE _node_finalize(env, validate(cr), cr)

\* what the run leaves on disk for the next run
AfterWorkflow(env) ==
    LET cr == convert_repo(env)
        fo == run_workflow(env)
    IN IF cr.raised THEN env
       ELSE [env EXCEPT
               !.output_dir = IF @ = "absent" THEN "directory" ELSE @,
               !.reports = IF fo.raised THEN @
                           ELSE IF @ = "absent" THEN "directory" ELSE @,
               !.report_file = IF fo.raised THEN @
                               ELSE IF @ = "absent" THEN "stale" ELSE @]

MaxWorkflowRuns == 2

InitWorkflow ==
    /\ arg \in {<<e>> : e \in WorkflowEnvs}
    /\ res = <<>>
    /\ files = [k \in Keys |-> Absent]
    /\ now = 0
    /\ ticks = 0
    /\ cache_enabled = TRUE
    /\ last = NoOp
    /\ ConcIdle
    /\ OrchIdle

\* one call of run_workflow on the same input; the disk is what the previous
\* call left
RunWorkflow ==
    /\ Len(res) < MaxWorkflowRuns
    /\ res' = Append(res, run_workflow(arg[1]))
    /\ arg' = <<AfterWorkflow(arg[1])>>
    /\ UNCHANGED <<cacheVars, concVars, orchVars>>

NextWorkflow == RunWorkflow

SpecWorkflow == InitWorkflow /\ [][NextWorkflow]_vars

\* C33: run_workflow always returns a FinalOutcome with status success or
\* failed and exactly one of converted_repo_path / report_path set: success
\* with the converted path and no report iff validation succeeded, otherwise
\* failed with the report written, report_path naming it and no converted
\* path; a second run on the same input gives the same status.
C33_FinalOutcome ==
    /\ \A n \in 1..Len(res) :
          LET fo == res[n]
              vr == validate(convert_repo(arg[1]))
          IN
          /\ ~fo.raised
          /\ fo.status \in {"success", "failed"}
          /\ (fo.converted_repo_path = "None") # (fo.report_path = "None")
          /\ fo.status = "success" <=>
                (vr.status = "success" /\ fo.converted_repo_path # "None")
          /\ fo.status = "failed" =>
                (fo.report_written /\ fo.report_path # "None")
    /\ Len(res) = 2 => res[1].status = res[2].status

\* ---------------------------------------------------------------------------
\* scan_repo on a local directory (src/v1_multi-agent/src/agents/repo_scanner.py)
\* ---------------------------------------------------------------------------

\* the relative paths of the scanned tree, in string order
ScanPaths ==
    <<"main.tf", "modules/main.tf", "modules/outputs.tf", "notes.md",
      "variables.tf">>

ScanPathSet == {ScanPaths[n] : n \in 1..Len(ScanPaths)}

TfPaths == ScanPathSet \ {"notes.md"}

PathRank(p) == CHOOSE n \in 1..Len(ScanPaths) : ScanPaths[n] = p

\* block names, in string order
ScanNames == <<"address", "location", "subnet_id", "vnet_id">>

NameRank(name) == CHOOSE n \in 1..Len(ScanNames) : ScanNames[n] = name

\* what a path holds
ScanContents ==
    {"absent", "unparsable", "no_blocks", "resource", "variables",
     "variables_other"}

ScanTrees ==
    { t \in [ScanPathSet -> ScanContents] :
         t["notes.md"] \in {"absent", "resource"} }

\* os.walk is top-down: the files of the root come before those of modules/,
\* the order inside one directory is the file system's
WalkOrders ==
    { r \o m : r \in {<<"main.tf", "notes.md", "variables.tf">>,
                      <<"variables.tf", "main.tf", "notes.md">>},
               m \in {<<"modules/main.tf", "modules/outputs.tf">>,
                      <<"modules/outputs.tf", "modules/main.tf">>} }

\* _parse_hcl_file: hcl2.load, or {} when it raises
_parse_hcl_file(content) ==
    CASE content = "resource" ->
           [resource |-> <<[type |-> "azurerm_virtual_network",
                            name |-> "vnet1"]>>,
            variable |-> <<>>, output |-> <<>>]
      [] content = "variables" ->
           [resource |-> <<>>,
            variable |-> <<[name |-> "location", default |-> "westeurope"]>>,
            output |-> <<"vnet_id">>]
      [] content = "variables_other" ->
           [resource |-> <<[type |-> "azurerm_subnet", name |-> "subnet1"]>>,
            variable |-> <<[name |-> "location", default |-> "northeurope"],
                           [name |-> "address", default |-> "None"]>>,
            output |-> <<"vnet_id", "subnet_id">>]
      [] OTHER -> [resource |-> <<>>, variable |-> <<>>, output |-> <<>>]

\* dict.setdefault(name, item) for each item, on a dict kept in insertion order
RECURSIVE setdefault_all(_, _)
setdefault_all(acc, items) ==
    IF items = <<>> THEN acc
    ELSE LET item == Head(items)
             present == \E n \in 1..Len(acc) : acc[n].name = item.name
         IN setdefault_all(IF present THEN acc ELSE Append(acc, item),
                           Tail(items))

OutputItems(names) == [n \in 1..Len(names) |-> [name |-> names[n]]]

\* the files of the walk that end in .tf and exist
WalkedTf(tree, order) ==
    SelectSeq(order, LAMBDA p : p \in TfPaths /\ tree[p] # "absent")

\* the first walk: files with resources, variables and outputs accumulated
RECURSIVE first_walk(_, _, _)
first_walk(tree, walked, acc) ==
    IF walked = <<>> THEN acc
    ELSE LET p == Head(walked)
             data == _parse_hcl_file(tree[p])
         IN first_walk(tree, Tail(walked),
              [files |-> IF data.resource # <<>>
                         THEN Append(acc.files,
                                     [path |-> p, resources |-> data.resource])
                         ELSE acc.files,
               variables |-> setdefault_all(acc.variables, data.variable),
               outputs |-> setdefault_all(acc.outputs,
                                          OutputItems(data.output))])

\* the second walk: every .tf file not yet listed, with no resources
RECURSIVE second_walk(_, _)
second_walk(walked, file_manifests) ==
    IF walked = <<>> THEN file_manifests
    ELSE LET p == Head(walked)
             discovered == \E n \in 1..Len(file_manifests) :
                               file_manifests[n].path = p
         IN second_walk(Tail(walked),
                        IF discovered THEN file_manifests
                        ELSE Append(file_manifests,
                                    [path |-> p, resources |-> <<>>]))

ByPath(f, g) == PathRank(f.path) < PathRank(g.path)

ByName(v, w) == NameRank(v.name) < NameRank(w.name)

RepoManifest(file_manifests, variables_acc, outputs_acc) ==
    [files |-> SortSeq(file_manifests, ByPath),
     variables |-> SortSeq(variables_acc, ByName),
     outputs |-> SortSeq(outputs_acc, ByName)]

\* a scan that lists only the files of the first walk
scan_repo_first_walk_only(tree, order) ==
    LET walked == WalkedTf(tree, order)
        acc == first_walk(tree, walked,
                          [files |-> <<>>, variables |-> <<>>, outputs |-> <<>>])
    IN RepoManifest(acc.files, acc.variables, acc.outputs)

scan_repo(tree, order) ==
    LET walked == WalkedTf(tree, order)
        acc == first_walk(tree, walked,
                          [files |-> <<>>, variables |-> <<>>, outputs |-> <<>>])
    IN RepoManifest(second_walk(walked, acc.files), acc.variables, acc.outputs)

InitScan ==
    /\ arg \in ScanTrees \X WalkOrders
    /\ res = <<>>
    /\ files = [k \in Keys |-> Absent]
    /\ now = 0
    /\ ticks = 0
    /\ cache_enabled = TRUE
    /\ last = NoOp
    /\ ConcIdle
    /\ OrchIdle

\* a caller scans the local directory
ScanRepo ==
    /\ res = <<>>
    /\ res' = <<scan_repo(arg[1], arg[2])>>
    /\ UNCHANGED <<arg, cacheVars, concVars, orchVars>>

NextScan == ScanRepo

SpecScan == InitScan /\ [][NextScan]_vars

\* the names of the blocks of one kind over all .tf files of the tree
NamesIn(tree, kind) ==
    { IF kind = "variable" THEN _parse_hcl_file(tree[p]).variable[n].name
      ELSE _parse_hcl_file(tree[p]).output[n] :
        <<p, n>> \in { q \in TfPaths \X (1..2) :
                         /\ tree[q[1]] # "absent"
                         /\ q[2] <= Len(IF kind = "variable"
                                        THEN _parse_hcl_file(tree[q[1]]).variable
                                        ELSE _parse_hcl_file(tree[q[1]]).output) } }

\* a sequence of named items holds each of the names once, in name order
SortedOnce(items, names) ==
    /\ {items[n].name : n \in 1..Len(items)} = names
    /\ \A n \in 1..(Len(items) - 1) :
          NameRank(items[n].name) < NameRank(items[n + 1].name)

\* C34: scan_repo on a local directory lists every .tf file under the root
\* exactly once in manifest.files (files without resources or that fail to
\* parse with an empty resource list), sorted by relative path; variables
\* and outputs are de-duplicated by name and sorted by name.
C34_ScanManifest ==
    res # <<>> =>
        LET tree == arg[1]
            m == res[1]
        IN
        /\ \A p \in TfPaths : tree[p] # "absent" =>
              Cardinality({n \in 1..Len(m.files) : m.files[n].path = p}) = 1
        /\ \A n \in 1..Len(m.files) :
              /\ m.files[n].path \in TfPaths
              /\ tree[m.files[n].path] # "absent"
              /\ m.files[n].resources =
                    _parse_hcl_file(tree[m.files[n].path]).resource
              /\ tree[m.files[n].path] \in {"unparsable", "no_blocks"} =>
                    m.files[n].resources = <<>>
        /\ \A n \in 1..(Len(m.files) - 1) :
              PathRank(m.files[n].path) < PathRank(m.files[n + 1].path)
        /\ SortedOnce(m.variables, NamesIn(tree, "variable"))
        /\ SortedOnce(m.outputs, NamesIn(tree, "output"))

\* C34 witness: a scanned tree with a file that fails to parse, a file with
\* resources in a subdirectory listed after it by the walk, and the same
\* variable declared in two files
C34_Witness ==
    /\ res # <<>>
    /\ arg[1]["variables.tf"] = "variables"
    /\ arg[1]["modules/main.tf"] = "variables_other"
    /\ arg[1]["main.tf"] = "unparsable"
    /\ arg[2][1] = "variables.tf"
    /\ Len(res[1].files) = 3
    /\ Len(res[1].variables) = 2

\* ---------------------------------------------------------------------------
\* TerraformToAVMConverter.convert (src/main_AVM_docs_TF_multi_step.py)
\* ---------------------------------------------------------------------------

\* ConversionState, in the order of the steps
ConversionState ==
    <<"initialized", "parsing", "mapping", "converting", "validating", "writing",
      "completed">>

StateRank(st) ==
    IF st = "failed" THEN 0
    ELSE CHOOSE n \in 1..Len(ConversionState) : ConversionState[n] = st

\* the inputs of a call: the .tf files under source_path and whether an
\* output path was given
ConversionInputs ==
    [tf_files : {{}, {"main.tf"}, {"main.tf", "modules/main.tf"}},
     output_given : BOOLEAN,
     output_dir : {"writable", "mkdir_fails"}]

\* the outputs of write_conversion_output, in the order they are written
\* (converted_files is {}: _extract_converted_files returns {})
Outputs(in) ==
    {"original/" \o f : f \in in.tf_files}
        \cup {"avm-mapping.json", "conversion_report.md"}

\* ConversionContext(state=INITIALIZED) and what is on disk
NewContext ==
    [pc |-> "parse", state |-> "initialized", report |-> FALSE,
     checkpoint |-> [state |-> "none", report |-> FALSE],
     checkpoints |-> 0, written |-> {}, raised |-> FALSE]

\* save_checkpoint: checkpoint.json is opened with 'w' and to_dict() dumped;
\* an OSError leaves the method (the file is then missing or empty)
save_checkpoint(c, ok) ==
    IF ok
    THEN [c EXCEPT !.checkpoint = [state |-> c.state, report |-> c.report],
                   !.checkpoints = @ + 1]
    ELSE [c EXCEPT !.checkpoint = [state |-> "none", report |-> FALSE]]

\* the except clause of convert: state = FAILED, save_checkpoint(), raise;
\* ok is what the save meets
convert_except(c, ok) ==
    [save_checkpoint([c EXCEPT !.state = "failed"], ok)
        EXCEPT !.pc = "raised", !.raised = TRUE]

StepOutcomes == {"ok", "agent_raises", "checkpoint_raises"}

\* one of the steps 1-4: the state is set, the agent is asked, the result is
\* stored and the checkpoint saved
AgentStep(c, st, next, outcome, handler_ok) ==
    LET entered == [c EXCEPT !.state = st] IN
    CASE outcome = "ok" -> [save_checkpoint(entered, TRUE) EXCEPT !.pc = next]
      [] outcome = "agent_raises" -> convert_except(entered, handler_ok)
      [] OTHER -> convert_except(save_checkpoint(entered, FALSE), handler_ok)

\* generate_report: the agent is asked and context.report set; the state is
\* not touched and no checkpoint is saved
generate_report(c, outcome, handler_ok) ==
    IF outcome = "ok" THEN [c EXCEPT !.report = TRUE, !.pc = "write"]
    ELSE convert_except(c, handler_ok)

\* write_conversion_output: done is the set of outputs written when an
\* OSError (or a decoding error of a copied file) ends the writing
write_conversion_output(c, in, outcome, done, handler_ok) ==
    LET entered == [c EXCEPT !.state = "writing"] IN
    CASE outcome = "ok" ->
           [save_checkpoint([entered EXCEPT !.written = Outputs(in),
                                            !.state = "completed"], TRUE)
               EXCEPT !.pc = "returned"]
      [] outcome = "agent_raises" ->
           convert_except([entered EXCEPT !.written = done], handler_ok)
      [] OTHER ->
           convert_except(
               save_checkpoint([entered EXCEPT !.written = Outputs(in),
                                               !.state = "completed"], FALSE),
               handler_ok)

InitConvert ==
    /\ arg \in {<<in>> : in \in ConversionInputs}
    /\ res = <<>>
    /\ files = [k \in Keys |-> Absent]
    /\ now = 0
    /\ ticks = 0
    /\ cache_enabled = TRUE
    /\ last = NoOp
    /\ ConcIdle
    /\ OrchIdle

\* the head of convert: output_dir.mkdir (outside the try) and the context
StartConvert ==
    /\ res = <<>>
    /\ res' = IF arg[1].output_dir = "mkdir_fails"
              THEN <<[NewContext EXCEPT !.pc = "raised", !.raised = TRUE]>>
              ELSE <<NewContext>>
    /\ UNCHANGED <<arg, cacheVars, concVars, orchVars>>

ConvertStep(pc, next) ==
    /\ res # <<>>
    /\ res[1].pc = pc
    /\ \E outcome \in StepOutcomes, handler_ok \in BOOLEAN :
          res' = <<AgentStep(res[1], CASE pc = "parse" -> "parsing"
                                       [] pc = "map" -> "mapping"
                                       [] pc = "convert" -> "converting"
                                       [] OTHER -> "validating",
                             next, outcome, handler_ok)>>
    /\ UNCHANGED <<arg, cacheVars, concVars, orchVars>>

ParseTerraformFiles == ConvertStep("parse", "map")

MapResourcesToAvm == ConvertStep("map", "convert")

ConvertFiles == ConvertStep("convert", "validate")

ValidateConversion == ConvertStep("validate", "report")

GenerateReport ==
    /\ res # <<>>
    /\ res[1].pc = "report"
    /\ \E outcome \in {"ok", "agent_raises"}, handler_ok \in BOOLEAN :
          res' = <<generate_report(res[1], outcome, handler_ok)>>
    /\ UNCHANGED <<arg, cacheVars, concVars, orchVars>>

WriteConversionOutput ==
    /\ res # <<>>
    /\ res[1].pc = "write"
    /\ \E outcome \in StepOutcomes, handler_ok \in BOOLEAN,
          done \in SUBSET Outputs(arg[1]) :
          /\ done # Outputs(arg[1])
          /\ "conversion_report.md" \in done => "avm-mapping.json" \in done
          /\ res' = <<write_conversion_output(res[1], arg[1], outcome, done,
                                              handler_ok)>>
    /\ UNCHANGED <<arg, cacheVars, concVars, orchVars>>

NextConvert ==
    \/ StartConvert
    \/ ParseTerraformFiles
    \/ MapResourcesToAvm
    \/ ConvertFiles
    \/ ValidateConversion
    \/ GenerateReport
    \/ WriteConversionOutput

SpecConvert == InitConvert /\ [][NextConvert]_vars

\* C40: ConversionContext state machine: the state moves only forward through
\* INITIALIZED .. COMPLETED; COMPLETED is reached only after all output files
\* were written; whenever a step raises, the state becomes FAILED, a
\* checkpoint recording FAILED is saved and the exception is re-raised; a
\* checkpoint (of the context as it then is) is saved after every completed
\* step.
C40_ContextStateMachine ==
    [][(res # <<>> /\ res' # <<>> /\ res' # res) =>
          LET c == res[1]
              d == res'[1]
          IN
          /\ d.state # c.state =>
                (d.state = "failed" \/ StateRank(d.state) > StateRank(c.state))
          /\ d.state = "completed" => d.written = Outputs(arg[1])
          /\ d.raised =>
                /\ d.state = "failed"
                /\ d.checkpoint = [state |-> "failed", report |-> d.report]
          /\ ~d.raised =>
                /\ d.checkpoints = c.checkpoints + 1
                /\ d.checkpoint = [state |-> d.state, report |-> d.report]]_vars

====
